---------------------------- MODULE Spec2Model ----------------------------
(***************************************************************************)
(* Unexplore-Himalayas: the client-side data / auth / booking workflow.   *)
(*                                                                         *)
(* The hosted backend (tables, storage) is the environment: every request  *)
(* the client issues is executed by the backend atomically at some later   *)
(* moment and may be accepted, rejected (an `error` in the result object)  *)
(* or fail with an exception.  Each `await` of the source is a step        *)
(* boundary.  The components share no client state, so each one is checked *)
(* under its own specification (SpecWishlist, SpecBooking, SpecCatalog,    *)
(* SpecNavigation, SpecAdmin) and leaves the state of the others alone.    *)
(***************************************************************************)
EXTENDS Integers, Sequences, FiniteSets, TLC

(***************************************************************************)
(* Bounds of the model.                                                    *)
(***************************************************************************)
MaxToggleCalls == 4
MaxSubmits == 2
MaxDestInserts == 2
MaxStored == 3
MaxNameLen == 2
MaxTextLen == 5
MaxPkgInserts == 1
MaxSeeds == 2
MaxSeedFailures == 1
MaxLoads == 1
MaxStatusChanges == 2
MaxSignIns == 2

(***************************************************************************)
(* Finite input domains.                                                   *)
(***************************************************************************)
Sessions == {"s1", "s2"}
Users == {"u1"}
Packages == {"p1", "p2"}
Pairs == Users \X Packages

\* the absence of a row / of a value (`null` in the source)
NoRow == 0
Null == "null"

\* outcomes of one backend request: accepted, answered with an `error`
\* object, or failing with an exception (a rejected promise)
Outcomes == {"ok", "error", "throw"}

VARIABLES
    \* ---- backend table `wishlist` and its id generator
    wishlist,       \* set of rows [id, user_id, package_id]
    wlNextId,       \* next id the backend assigns
    \* ---- toggleWishlist calls, one activation per client session
    tw,             \* [Sessions -> activation record]
    twCalls,        \* number of calls started so far
    twHistory,      \* [Pairs -> the last two completed calls of the pair]
    \* ---- backend table `bookings` and its id generator
    bookings,       \* set of rows
    bkNextId,       \* next id the backend assigns
    bkAccepted,     \* number of inserts the backend has persisted
    \* ---- App: the state the booking modal depends on
    user,                   \* App.user: Null or a user id
    isBookingModalOpen,     \* App.isBookingModalOpen
    selectedBookingPackage, \* App.selectedBookingPackage
    \* ---- BookingModal: the mounted instance (it is unmounted on close)
    formData,       \* BookingModal.formData
    status,         \* BookingModal.status
    bmMountedAt,    \* number of submissions made before this instance mounted
    bmSubmits,      \* number of submissions made so far
    bmCalls,        \* createBooking activations not yet resumed by handleSubmit
    bmTimers,       \* submissions whose 3 s auto-close timer is pending
    \* ---- backend tables `destinations` and `packages`
    destTable,      \* set of rows [id, created_at, name, image]
    pkgTable,       \* set of rows [id, created_at, name]
    destInserts,    \* destinations inserted so far (ids and timestamps come from it)
    \* ---- the catalog reads: the latest call of each list function
    lastRead,       \* [Resources -> [outcome, rows, priorOk]]
    written,        \* [Resources -> the table was written since that call]
    \* ---- App: catalog state
    destinations,           \* App.destinations
    packages,               \* App.packages
    isDataLoading,          \* App.isDataLoading
    selectedDestination,    \* App.selectedDestination (NoDestination: null)
    loadData,               \* App loadData(): the two pending reads
    navLog,                 \* the navigations made since the detail view opened
    \* ---- the admin gate
    adminSession,       \* localStorage[AUTH_KEY]: "true" or Null
    isAdminPanelOpen,   \* App.isAdminPanelOpen (AdminPanel is mounted)
    isLoggedIn,         \* AdminPanel.isLoggedIn
    username,           \* AdminPanel.username
    password,           \* AdminPanel.password
    error,              \* AdminPanel.error
    isLoading,          \* AdminPanel.isLoading (loadData is running)
    attempts,           \* the (username, password) pairs submitted so far
    \* ---- the auth backend and the profiles table
    accounts,       \* set of accounts [id, email, username]
    profiles,       \* set of rows [id, username, role]
    authCall,       \* the signUpUser / signInUser call in progress
    \* ---- AdminPanel: the package form
    pkgText,        \* the text the administrator enters in the features field
    editingPkg,     \* AdminPanel.editingPkg (NoPkg: null)
    isEditingPkg,   \* AdminPanel.isEditingPkg
    pkgSaveStatus,  \* AdminPanel.pkgSaveStatus
    pkgSave,        \* the handlePkgSave activation in progress
    pkgAlert,       \* the alert the last handlePkgSave showed ("": none)
    pkgInserts,     \* packages inserted so far (ids and timestamps)
    adminPackages,  \* AdminPanel.packages
    \* ---- AdminPanel: seeding
    seeds,              \* the handleSeedDatabase activations, in start order
    adminDestinations,  \* AdminPanel.destinations
    \* ---- AdminPanel: the destination form
    editingDest,        \* the destination being edited, NoDest: null
    destImageFile,      \* the image file chosen, Null: none
    isEditingDest,
    destSaveStatus,     \* "idle" | "saving"
    destSave,           \* the handleDestSave activation
    destAlert,          \* the text of the last alert() of the form
    \* ---- AdminPanel: the user form
    adminUsers,         \* AdminPanel.users
    editingUser,        \* the profile being edited, NoUser: null
    newPassword,
    isEditingUser,
    userSave,           \* the handleUserSave activation
    userAlert,          \* the text of the last alert() of the form
    \* ---- authService: the session listener
    notify,             \* the activation of the listener of onAuthStateChange
    \* ---- AuthModal (mounted while App.isAuthModalOpen)
    isAuthModalOpen,
    isLogin,            \* the form signs in (TRUE) or registers (FALSE)
    authLoading,        \* AuthModal.loading
    authError,          \* AuthModal.error
    \* ---- AdminPanel: the bookings tab
    adminBookings,      \* AdminPanel.bookings
    bookingLoads,       \* the loadData activations in flight
    statusChanges,      \* the handleStatusChange activations, in start order
    \* ---- App: the session and the wishlist of the landing page
    wishlistIds,        \* App.wishlistIds
    authSession,        \* the user of the backend session, Null: signed out
    authEvents,         \* the activations of the auth subscription, in order
    \* ---- UserDashboard (mounted while App.isUserDashboardOpen and a user)
    isUserDashboardOpen,
    dashboard           \* UserDashboard: its wishlist and its pending calls

wishlistVars == <<wishlist, wlNextId, tw, twCalls, twHistory>>

bookingVars == <<bookings, bkNextId, bkAccepted, user, isBookingModalOpen,
                 selectedBookingPackage, formData, status, bmMountedAt,
                 bmSubmits, bmCalls, bmTimers>>

catalogVars == <<destTable, pkgTable, destInserts, lastRead,
                 written, destinations, packages, isDataLoading,
                 selectedDestination, loadData, navLog>>

adminVars == <<adminSession, isAdminPanelOpen, isLoggedIn, username,
               password, error, isLoading, attempts>>

authVars == <<accounts, profiles, authCall>>

pkgFormVars == <<pkgText, editingPkg, isEditingPkg, pkgSaveStatus, pkgSave,
                 pkgAlert, pkgInserts, adminPackages>>

seedVars == <<seeds, adminDestinations>>

destFormVars == <<editingDest, destImageFile, isEditingDest, destSaveStatus,
                  destSave, destAlert>>

userFormVars == <<adminUsers, editingUser, newPassword, isEditingUser,
                  userSave, userAlert>>

notifyVars == <<notify>>

authModalVars == <<isAuthModalOpen, isLogin, authLoading, authError>>

adminBookingVars == <<adminBookings, bookingLoads, statusChanges>>

landingVars == <<wishlistIds, authSession, authEvents, isUserDashboardOpen,
                 dashboard>>

vars == <<wishlistVars, bookingVars, catalogVars, adminVars, authVars,
          pkgFormVars, seedVars, destFormVars, userFormVars, notifyVars,
          authModalVars, adminBookingVars, landingVars>>

\* frames: a step of one component leaves the others alone
OnlyWishlist == UNCHANGED <<bookingVars, catalogVars, adminVars, authVars,
                            pkgFormVars, seedVars, destFormVars,
                            userFormVars, notifyVars, authModalVars,
                            adminBookingVars, landingVars>>
OnlyBooking == UNCHANGED <<wishlistVars, catalogVars, adminVars, authVars,
                           pkgFormVars, seedVars, destFormVars, userFormVars,
                           notifyVars, authModalVars, adminBookingVars,
                           landingVars>>
OnlyCatalog == UNCHANGED <<wishlistVars, bookingVars, adminVars, authVars,
                           pkgFormVars, seedVars, destFormVars, userFormVars,
                           notifyVars, authModalVars, adminBookingVars,
                           landingVars>>
OnlyAdmin == UNCHANGED <<wishlistVars, bookingVars, catalogVars, authVars,
                         pkgFormVars, seedVars, destFormVars, userFormVars,
                         notifyVars, authModalVars, landingVars>>
OnlyAuth == UNCHANGED <<wishlistVars, bookingVars, catalogVars, adminVars,
                        pkgFormVars, seedVars, destFormVars, userFormVars,
                        notifyVars, authModalVars, adminBookingVars,
                        landingVars>>
OnlyAdminBookings == UNCHANGED <<wishlistVars, bookingVars, catalogVars,
                                 adminVars, authVars, pkgFormVars, seedVars,
                                 destFormVars, userFormVars, notifyVars,
                                 authModalVars, landingVars>>
OnlyLanding == UNCHANGED <<wishlistVars, bookingVars, catalogVars, adminVars,
                           authVars, pkgFormVars, seedVars, destFormVars,
                           userFormVars, notifyVars, authModalVars,
                           adminBookingVars>>
OnlyAuthModal ==
    UNCHANGED <<wishlistVars, bookingVars, catalogVars, adminVars, accounts,
                profiles, pkgFormVars, seedVars, destFormVars, userFormVars,
                notifyVars,
                adminBookingVars,
                landingVars>>
OnlyNotify ==
    UNCHANGED <<wishlistVars, bookingVars, catalogVars, adminVars, authVars,
                pkgFormVars, seedVars, destFormVars, userFormVars,
                authModalVars,
                adminBookingVars,
                landingVars>>
OnlyUserForm ==
    UNCHANGED <<wishlistVars, bookingVars, catalogVars, adminSession,
                isAdminPanelOpen, isLoggedIn, username, password, error,
                attempts, accounts, authCall, pkgText, editingPkg,
                isEditingPkg, pkgSaveStatus, pkgSave, pkgAlert, pkgInserts,
                seeds, destFormVars, notifyVars,
                authModalVars,
                bookingLoads, statusChanges,
                landingVars>>
OnlyDestForm ==
    UNCHANGED <<wishlistVars, bookingVars, adminVars, authVars, seeds,
                pkgTable, lastRead, written, destinations, packages,
                isDataLoading, selectedDestination, loadData, navLog,
                pkgText, editingPkg, isEditingPkg, pkgSaveStatus, pkgSave,
                pkgAlert, pkgInserts, userFormVars, notifyVars,
                authModalVars,
                bookingLoads, statusChanges,
                landingVars>>
OnlySeed ==
    UNCHANGED <<wishlistVars, bookingVars, authVars, lastRead, written,
                destinations, packages, isDataLoading, selectedDestination,
                loadData, navLog, adminSession, isAdminPanelOpen, isLoggedIn,
                username, password, error, attempts, pkgText, editingPkg,
                isEditingPkg, pkgSaveStatus, pkgSave, pkgAlert, destFormVars,
                userFormVars, notifyVars,
                authModalVars,
                bookingLoads, statusChanges,
                landingVars>>
OnlyPkgForm ==
    UNCHANGED <<wishlistVars, bookingVars, adminVars, authVars, seeds,
                destFormVars, userFormVars, notifyVars, destTable,
                destInserts, lastRead,
                written, destinations, packages, isDataLoading,
                selectedDestination, loadData, navLog,
                authModalVars,
                bookingLoads, statusChanges,
                landingVars>>

----------------------------------------------------------------------------
(***************************************************************************)
(* Wishlist Toggle  (src/services/customerService.ts)                      *)
(***************************************************************************)

\* rows of the table that .eq('user_id', u).eq('package_id', p) selects
MatchingRows(u, p) == {r \in wishlist : r.user_id = u /\ r.package_id = p}

\* backend membership of the pair
Member(u, p) == MatchingRows(u, p) # {}

\* `.single()`: the row when exactly one row matches; with zero or several
\* matching rows the result carries an error and data = null
SingleRowAlwaysNull(u, p) == NoRow

SingleRow(u, p) ==
    IF Cardinality(MatchingRows(u, p)) = 1
    THEN (CHOOSE r \in MatchingRows(u, p) : TRUE).id
    ELSE NoRow

\* insert([{ user_id, package_id }]): the table has no uniqueness check of
\* its own, the backend assigns a fresh id
InsertWishlistUnique(u, p) ==
    IF Member(u, p) THEN wishlist
    ELSE wishlist \cup {[id |-> wlNextId, user_id |-> u, package_id |-> p]}

InsertWishlistRow(u, p) ==
    wishlist \cup {[id |-> wlNextId, user_id |-> u, package_id |-> p]}

\* delete().eq('id', id)
DeleteWishlistRow(id) == {r \in wishlist : r.id # id}

IdleCall ==
    [pc |-> "idle", u |-> Null, p |-> Null, existing |-> NoRow, ret |-> FALSE,
     m0 |-> FALSE, uniq |-> TRUE, ok |-> TRUE, solo |-> TRUE, rival |-> Null]

InFlight(s) == tw[s].pc # "idle"

OnPair(s, u, p) == InFlight(s) /\ tw[s].u = u /\ tw[s].p = p

\* toggleWishlist(userId, packageId) is called: the select is issued.
\* m0, uniq, ok, solo and rival record what the call started from and met:
\* the membership and the row count of the pair at the call, whether every
\* request so far was accepted, whether no other call on the pair overlapped,
\* and the session whose call on the pair had read but not yet written when
\* this call wrote.
ToggleWishlistIssue(s, u, p) ==
    /\ tw[s].pc = "idle"
    /\ twCalls < MaxToggleCalls
    /\ twCalls' = twCalls + 1
    /\ tw' = [t \in Sessions |->
                IF t = s
                THEN [pc |-> "select", u |-> u, p |-> p, existing |-> NoRow,
                      ret |-> FALSE,
                      m0 |-> Member(u, p),
                      uniq |-> Cardinality(MatchingRows(u, p)) <= 1,
                      ok |-> TRUE,
                      solo |-> \A o \in Sessions \ {s} : ~OnPair(o, u, p),
                      rival |-> Null]
                ELSE [tw[t] EXCEPT
                        !.solo = @ /\ ~OnPair(t, u, p),
                        !.rival = IF @ = s THEN Null ELSE @]]

\* a call made by a caller the model does not follow further
ToggleWishlistCall(s, u, p) ==
    /\ ToggleWishlistIssue(s, u, p)
    /\ UNCHANGED <<wishlist, wlNextId, twHistory>>
    /\ OnlyWishlist

\* lines 15-20: the backend executes the existence check
ToggleWishlistSelect(s, o) ==
    /\ tw[s].pc = "select"
    /\ tw' = [tw EXCEPT ![s] =
                IF o = "throw"
                THEN [@ EXCEPT !.pc = "done", !.ret = FALSE, !.ok = FALSE]
                ELSE [@ EXCEPT !.pc = "write",
                               !.existing = IF o = "ok"
                                            THEN SingleRow(tw[s].u, tw[s].p)
                                            ELSE NoRow,
                               !.ok = (o = "ok")]]
    /\ UNCHANGED <<wishlist, wlNextId, twCalls, twHistory>>
    /\ OnlyWishlist

\* lines 22-30: delete the row that was read, or insert a new one; the
\* result object of the write is not inspected
Rival(s) ==
    IF \E t \in Sessions \ {s} : OnPair(t, tw[s].u, tw[s].p) /\ tw[t].pc = "write"
    THEN CHOOSE t \in Sessions \ {s} : OnPair(t, tw[s].u, tw[s].p) /\ tw[t].pc = "write"
    ELSE Null

ToggleWishlistWrite(s, o) ==
    /\ tw[s].pc = "write"
    /\ IF tw[s].existing # NoRow
       THEN /\ wishlist' = IF o = "ok" THEN DeleteWishlistRow(tw[s].existing)
                           ELSE wishlist
            /\ wlNextId' = wlNextId
            /\ tw' = [tw EXCEPT ![s] = [@ EXCEPT !.pc = "done", !.ret = FALSE,
                                                 !.ok = @ /\ o = "ok",
                                                 !.rival = Rival(s)]]
       ELSE /\ wishlist' = IF o = "ok"
                           THEN InsertWishlistRow(tw[s].u, tw[s].p)
                           ELSE wishlist
            /\ wlNextId' = IF wishlist' # wishlist THEN wlNextId + 1 ELSE wlNextId
            /\ tw' = [tw EXCEPT ![s] = [@ EXCEPT !.pc = "done",
                                                 !.ret = (o # "throw"),
                                                 !.ok = @ /\ o = "ok",
                                                 !.rival = Rival(s)]]
    /\ UNCHANGED <<twCalls, twHistory>>
    /\ OnlyWishlist

LastTwo(h) == IF Len(h) <= 2 THEN h ELSE SubSeq(h, Len(h) - 1, Len(h))

\* the promise resolves with the boolean; the call is appended to the
\* history of its pair
ToggleWishlistResolve(s) ==
    /\ tw[s].pc = "done"
    /\ twHistory' = [twHistory EXCEPT ![<<tw[s].u, tw[s].p>>] =
                        LastTwo(Append(@, [m0 |-> tw[s].m0, ret |-> tw[s].ret,
                                           existing |-> tw[s].existing,
                                           clean |-> tw[s].ok /\ tw[s].solo
                                                      /\ tw[s].uniq]))]
    /\ tw' = [tw EXCEPT ![s] = IdleCall]
    /\ UNCHANGED <<wishlist, wlNextId, twCalls>>

\* the call returns to a caller that does nothing with the result
ToggleWishlistReturn(s) ==
    /\ ToggleWishlistResolve(s)
    /\ OnlyWishlist

\* the rows the table may hold when the clients start: the backend outlives
\* the client, and a table only ever toggled one call at a time holds at most
\* one row per pair
StoredRow(u, p) ==
    [id |-> IF p = "p1" THEN 1 ELSE 2, user_id |-> u, package_id |-> p]

InitWishlistPart ==
    /\ \E ps \in SUBSET Pairs : wishlist = {StoredRow(pr[1], pr[2]) : pr \in ps}
    /\ wlNextId = 3
    /\ tw = [s \in Sessions |-> IdleCall]
    /\ twCalls = 0
    /\ twHistory = [pr \in Pairs |-> <<>>]

NextWishlist ==
    \/ \E s \in Sessions, u \in Users, p \in Packages : ToggleWishlistCall(s, u, p)
    \/ \E s \in Sessions, o \in Outcomes : ToggleWishlistSelect(s, o)
    \/ \E s \in Sessions, o \in Outcomes : ToggleWishlistWrite(s, o)
    \/ \E s \in Sessions : ToggleWishlistReturn(s)

----------------------------------------------------------------------------
(***************************************************************************)
(* Booking Writer  (src/services/adminService.ts, createBooking) and the   *)
(* booking modal  (src/unnamed/part_000, BookingModal; App.tsx mounts it   *)
(* only while isBookingModalOpen, so closing it discards its state)        *)
(***************************************************************************)

\* values the user gives the form controls.  The required text fields are
\* filled in and cleared; the package stays the one the modal was opened for
\* and the notes stay empty (neither takes part in any decision of the code).
FieldValues ==
    [name |-> {"", "Asha"}, phone |-> {"", "98"}, travelers |-> {2},
     date |-> {"", "d1"}, package |-> {"Trek"}, notes |-> {""}]

Fields == {"name", "phone", "travelers", "date", "package", "notes"}

\* the package name handleBookNow is called with
PackageNames == {"Trek"}

\* useState initial value, lines 21-28
InitialFormData(initialPackage) ==
    [name |-> "", phone |-> "", travelers |-> 2, date |-> "",
     package |-> initialPackage, notes |-> ""]

\* the `required` attributes of the form controls (name, phone, date,
\* travelers): the browser submits the form only when they are filled in
RequiredPresent(f) ==
    f.name # "" /\ f.phone # "" /\ f.date # "" /\ f.travelers >= 1

\* createBooking lines 40-53: the payload
BookingPayloadNoUser(data, userId) ==
    [name |-> data.name, phone |-> data.phone, travelers |-> data.travelers,
     date |-> data.date, package |-> data.package, notes |-> data.notes,
     status |-> "pending", email |-> "", user_id |-> Null]

BookingPayload(data, userId) ==
    [name |-> data.name, phone |-> data.phone, travelers |-> data.travelers,
     date |-> data.date, package |-> data.package, notes |-> data.notes,
     status |-> "pending", email |-> "",
     user_id |-> IF userId # Null THEN userId ELSE Null]

\* a row of the table: the payload and the id the backend assigns
BookingRow(payload, id) ==
    [id |-> id, name |-> payload.name, phone |-> payload.phone,
     travelers |-> payload.travelers, date |-> payload.date,
     package |-> payload.package, notes |-> payload.notes,
     status |-> payload.status, email |-> payload.email,
     user_id |-> payload.user_id]

PayloadOf(row) ==
    [name |-> row.name, phone |-> row.phone, travelers |-> row.travelers,
     date |-> row.date, package |-> row.package, notes |-> row.notes,
     status |-> row.status, email |-> row.email, user_id |-> row.user_id]

\* from('bookings').insert([payload]): no key of the payload identifies the
\* submission, every accepted insert adds a row
InsertBookingOnce(payload) ==
    IF \E r \in bookings : PayloadOf(r) = payload THEN bookings
    ELSE bookings \cup {BookingRow(payload, bkNextId)}

InsertBooking(payload) == bookings \cup {BookingRow(payload, bkNextId)}

\* outcomes of the insert: accepted; answered with an error; failing with an
\* exception; persisted by the backend with the response lost on the way back
InsertOutcomes == {"ok", "error", "throw", "lost"}

Persisted(o) == o \in {"ok", "lost"}

\* createBooking lines 59-67: the boolean it returns
CreateBookingResultIgnoringError(o) == o \in {"ok", "error"}

CreateBookingResult(o) == o = "ok"

\* the activation belongs to the modal instance that is mounted now
Live(c) == isBookingModalOpen /\ c.n > bmMountedAt

\* App.handleBookNow, lines 99-103: the modal is mounted afresh
HandleBookNow(packageName) ==
    /\ ~isBookingModalOpen
    /\ selectedBookingPackage' = packageName
    /\ isBookingModalOpen' = TRUE
    /\ formData' = InitialFormData(packageName)
    /\ status' = "idle"
    /\ bmMountedAt' = bmSubmits
    /\ UNCHANGED <<bookings, bkNextId, bkAccepted, user, bmSubmits, bmCalls, bmTimers>>
    /\ OnlyBooking

\* what closing leaves: App state, and no BookingModal instance
Unmounted ==
    /\ isBookingModalOpen' = FALSE
    /\ formData' = InitialFormData("")
    /\ status' = "idle"
    /\ bmMountedAt' = bmSubmits

\* the close button: onClose = () => setIsBookingModalOpen(false)
CloseBookingModal ==
    /\ isBookingModalOpen
    /\ Unmounted
    /\ UNCHANGED <<bookings, bkNextId, bkAccepted, user, selectedBookingPackage,
                   bmSubmits, bmCalls, bmTimers>>
    /\ OnlyBooking

\* BookingModal.handleChange, lines 38-41 (the form is rendered unless the
\* status is 'success')
HandleChange(field, value) ==
    /\ isBookingModalOpen
    /\ status # "success"
    /\ formData[field] # value
    /\ formData' = [formData EXCEPT ![field] = value]
    /\ UNCHANGED <<bookings, bkNextId, bkAccepted, user, isBookingModalOpen,
                   selectedBookingPackage, status, bmMountedAt, bmSubmits,
                   bmCalls, bmTimers>>
    /\ OnlyBooking

\* the session changes: App.setUser(currentUser)
SetUser(u) ==
    /\ user # u
    /\ user' = u
    /\ UNCHANGED <<bookings, bkNextId, bkAccepted, isBookingModalOpen,
                   selectedBookingPackage, formData, status, bmMountedAt,
                   bmSubmits, bmCalls, bmTimers>>
    /\ OnlyBooking

\* the form is rendered (status is not 'success') and its submit button is
\* not disabled (status is not 'sending'), part_000 lines 89-221
SubmitButtonEnabled ==
    /\ isBookingModalOpen
    /\ status \notin {"sending", "success"}

\* the form can be submitted: the button is enabled and the required fields
\* are filled in
SubmitEnabled == SubmitButtonEnabled /\ RequiredPresent(formData)

\* BookingModal.handleSubmit up to its await, lines 43-48, and createBooking
\* up to its await, lines 38-57: the insert request is issued
HandleSubmit ==
    /\ SubmitEnabled
    /\ bmSubmits < MaxSubmits
    /\ status' = "sending"
    /\ bmSubmits' = bmSubmits + 1
    /\ bmCalls' = bmCalls \cup
           {[n |-> bmSubmits + 1, userId |-> user,
             payload |-> BookingPayload(formData, user),
             requests |-> 1, pc |-> "insert", success |-> FALSE]}
    /\ UNCHANGED <<bookings, bkNextId, bkAccepted, user, isBookingModalOpen,
                   selectedBookingPackage, formData, bmMountedAt, bmTimers>>
    /\ OnlyBooking

\* the backend executes the insert and createBooking returns, lines 55-67
CreateBookingInsert(c, o) ==
    /\ c \in bmCalls
    /\ c.pc = "insert"
    /\ bookings' = IF Persisted(o) THEN InsertBooking(c.payload) ELSE bookings
    /\ bkNextId' = IF Persisted(o) THEN bkNextId + 1 ELSE bkNextId
    /\ bkAccepted' = IF Persisted(o) THEN bkAccepted + 1 ELSE bkAccepted
    /\ bmCalls' = (bmCalls \ {c}) \cup
           {[c EXCEPT !.pc = "returned", !.success = CreateBookingResult(o)]}
    /\ UNCHANGED <<user, isBookingModalOpen, selectedBookingPackage, formData,
                   status, bmMountedAt, bmSubmits, bmTimers>>
    /\ OnlyBooking

\* BookingModal.handleSubmit after its await, lines 50-59.  The state setters
\* of an unmounted instance do nothing; setTimeout is set regardless.
HandleSubmitResume(c) ==
    /\ c \in bmCalls
    /\ c.pc = "returned"
    /\ bmCalls' = bmCalls \ {c}
    /\ status' = IF Live(c) THEN (IF c.success THEN "success" ELSE "error")
                 ELSE status
    /\ bmTimers' = IF c.success THEN bmTimers \cup {c.n} ELSE bmTimers
    /\ UNCHANGED <<bookings, bkNextId, bkAccepted, user, isBookingModalOpen,
                   selectedBookingPackage, formData, bmMountedAt, bmSubmits>>
    /\ OnlyBooking

\* the timer of lines 52-56 fires: onClose() closes whichever modal is open;
\* setStatus('idle') and the form reset act on the instance that set the
\* timer, which the close unmounts
AutoClose(n) ==
    /\ n \in bmTimers
    /\ bmTimers' = bmTimers \ {n}
    /\ Unmounted
    /\ UNCHANGED <<bookings, bkNextId, bkAccepted, user, selectedBookingPackage,
                   bmSubmits, bmCalls>>
    /\ OnlyBooking

InitBookingPart ==
    /\ bookings = {}
    /\ bkNextId = 1
    /\ bkAccepted = 0
    /\ user = Null
    /\ isBookingModalOpen = FALSE
    /\ selectedBookingPackage = ""
    /\ formData = InitialFormData("")
    /\ status = "idle"
    /\ bmMountedAt = 0
    /\ bmSubmits = 0
    /\ bmCalls = {}
    /\ bmTimers = {}

NextBooking ==
    \/ \E pk \in PackageNames : HandleBookNow(pk)
    \/ CloseBookingModal
    \/ \E f \in Fields : \E v \in FieldValues[f] : HandleChange(f, v)
    \/ \E u \in Users \cup {Null} : SetUser(u)
    \/ HandleSubmit
    \/ \E c \in bmCalls, o \in InsertOutcomes : CreateBookingInsert(c, o)
    \/ \E c \in bmCalls : HandleSubmitResume(c)
    \/ \E n \in bmTimers : AutoClose(n)

----------------------------------------------------------------------------
(***************************************************************************)
(* Claims about booking creation.                                          *)
(***************************************************************************)

\* the activation c after createBooking has returned r
Returned(c, r) == [c EXCEPT !.pc = "returned", !.success = r]

\* C4: when the backend accepts the insert of a createBooking call (made
\* from a form with every required field filled in, with or without a user
\* id), the call has issued exactly one insert request, it returns true, and
\* the table gains exactly one row: a new one, holding the submitted fields,
\* with status 'pending', and with user_id set exactly when a user id was
\* passed.
C4_AcceptedBookingAddsOnePendingRow ==
    [][\A c \in bmCalls :
          CreateBookingInsert(c, "ok") =>
             /\ RequiredPresent(c.payload)
             /\ c.requests = 1
             /\ Returned(c, TRUE) \in bmCalls'
             /\ \E row \in bookings' \ bookings :
                   /\ bookings' = bookings \cup {row}
                   /\ \A r \in bookings : r.id # row.id
                   /\ row.status = "pending"
                   /\ row.user_id = c.userId
                   /\ \A f \in Fields : row[f] = c.payload[f]]_vars

\* an accepted booking of a signed-in user next to one of an anonymous user
C4_Witness ==
    /\ \E r \in bookings : r.user_id = "u1" /\ r.status = "pending"
    /\ \E r \in bookings : r.user_id = Null /\ r.status = "pending"
    /\ \E c \in bmCalls : c.pc = "returned" /\ c.success

\* C5: when the insert reports an error or throws, createBooking returns
\* false (it never throws: every activation returns a boolean), and the modal
\* that submitted moves from 'sending' to 'error': it stays open, the failure
\* message is shown (status 'error') and the form, with its fields as they
\* are, can be submitted again (the submit button is enabled).
C5_FailedBookingReturnsToForm ==
    [][\A c \in bmCalls :
          /\ \A o \in {"error", "throw"} :
                CreateBookingInsert(c, o) =>
                    /\ Returned(c, FALSE) \in bmCalls'
                    /\ bookings' = bookings
          /\ (HandleSubmitResume(c) /\ ~c.success /\ Live(c)) =>
                /\ status = "sending"
                /\ status' = "error"
                /\ isBookingModalOpen'
                /\ formData' = formData
                /\ SubmitButtonEnabled'
                /\ RequiredPresent(formData) => SubmitEnabled']_vars

\* the modal shows the failure after a rejected insert; nothing was stored
C5_Witness ==
    /\ isBookingModalOpen /\ status = "error" /\ SubmitEnabled
    /\ bmSubmits = 1 /\ bmCalls = {} /\ bookings = {}

\* C6: no idempotency key.  Every submission issues its own insert, so the
\* number of booking rows created equals the number of inserts the backend
\* accepted, and a submission repeated with the same form data adds a
\* duplicate row.
C6_OneRowPerAcceptedInsert ==
    /\ Cardinality(bookings) = bkAccepted
    /\ bkNextId = bkAccepted + 1
    /\ \A c \in bmCalls : c.requests = 1
    /\ Cardinality(bmCalls) <= bmSubmits

\* the retry after a reported failure whose insert had been persisted: the
\* modal shows the failure, was submitted twice, and the table holds two rows
\* that differ in their id only
C6_Witness ==
    /\ \E r1, r2 \in bookings : r1.id # r2.id /\ PayloadOf(r1) = PayloadOf(r2)
    /\ isBookingModalOpen /\ status = "error" /\ bmSubmits = 2
    /\ bmMountedAt = 0

\* C30: the auto-close timer of a successful submission closes only the
\* modal that made the submission.  When that modal was closed and the
\* booking modal opened again before the timer fires, the firing timer
\* leaves the new modal open and its form state as it was.
C30_AutoCloseSparesANewModal ==
    [][\A n \in bmTimers :
          (isBookingModalOpen /\ n <= bmMountedAt /\ AutoClose(n)) =>
              /\ isBookingModalOpen'
              /\ formData' = formData
              /\ status' = status
      ]_vars

----------------------------------------------------------------------------
(***************************************************************************)
(* Catalog Reader  (getDestinations: src/services/adminService.ts lines    *)
(* 214-231; getPackages: src/unnamed/part_004 lines 54-71), the writes of  *)
(* the two tables, and the landing page's list and detail view (App.tsx)   *)
(***************************************************************************)

Resources == {"destinations", "packages"}

\* the creation time the backend stamps on an inserted row (the payload
\* carries none): its clock has advanced since the previous insert
CreatedAt(n) == n

RECURSIVE Orderings(_)
Orderings(S) ==
    IF S = {} THEN {<<>>}
    ELSE UNION {{<<r>> \o q : q \in Orderings(S \ {r})} : r \in S}

Earliest(S) == {r \in S : \A t \in S : r.created_at <= t.created_at}

\* the orderings of S by ascending creation time
RECURSIVE Ascending(_)
Ascending(S) ==
    IF S = {} THEN {<<>>}
    ELSE UNION {{<<r>> \o q : q \in Ascending(S \ {r})} : r \in Earliest(S)}

\* select('*').order('created_at', { ascending: true }): the rows in an
\* order the backend may answer with (rows of equal creation time come in
\* any order)
SelectUnordered(rows) == Orderings(rows)

SelectAscending(rows) == Ascending(rows)

\* what the list function returns: the rows on success, the empty sequence
\* when the result carries an error (lines 221-224) or the request throws
\* (lines 227-230)
ListResultsFallback(o, rows) ==
    IF o = "ok" THEN SelectAscending(rows)
    ELSE {<<[id |-> 1, created_at |-> 1, name |-> "Spiti Valley"]>>}

ListResults(o, rows) ==
    IF o = "ok" THEN SelectAscending(rows) ELSE {<<>>}

NoDestination == [id |-> NoRow, created_at |-> 0, name |-> "", image |-> ""]

\* ---- the writes (destinationService / packageService) -----------------

DestinationIds == {r.id : r \in destTable}

PackageIds == {r.id : r \in pkgTable}

\* uploadDestinationImage, lines 234-255: the public URL, or null
UploadedUrl(o) == IF o = "ok" THEN "uploaded" ELSE Null

\* saveDestination, lines 258-308.  input.id = NoRow: no id, an insert.
SaveDestination(input, file, upload, o) ==
    LET uploadedUrl == IF file # Null THEN UploadedUrl(upload) ELSE Null
        aborted == file # Null /\ uploadedUrl = Null
        imageUrl == IF file # Null THEN uploadedUrl ELSE input.image
        accepted == ~aborted /\ o = "ok"
    IN
    /\ input.id = NoRow => destInserts < MaxDestInserts
    /\ IF ~accepted
       THEN UNCHANGED <<destTable, destInserts, written>>
       ELSE IF input.id # NoRow
       THEN /\ destTable' = {IF r.id = input.id
                             THEN [r EXCEPT !.name = input.name,
                                            !.image = imageUrl]
                             ELSE r : r \in destTable}
            /\ destInserts' = destInserts
            /\ written' = [written EXCEPT !["destinations"] =
                                @ \/ destTable' # destTable]
       ELSE /\ destTable' = destTable \cup
                   {[id |-> destInserts + 1,
                     created_at |-> CreatedAt(destInserts + 1),
                     name |-> input.name, image |-> imageUrl]}
            /\ destInserts' = destInserts + 1
            /\ written' = [written EXCEPT !["destinations"] = TRUE]
    /\ UNCHANGED <<pkgTable, lastRead, destinations, packages,
                   isDataLoading, selectedDestination, loadData, navLog>>
    /\ OnlyCatalog

\* deleteDestination, lines 311-326
DeleteDestination(id, o) ==
    /\ destTable' = IF o = "ok" THEN {r \in destTable : r.id # id} ELSE destTable
    /\ written' = [written EXCEPT !["destinations"] = @ \/ destTable' # destTable]
    /\ UNCHANGED <<pkgTable, destInserts, lastRead, destinations,
                   packages, isDataLoading, selectedDestination, loadData, navLog>>
    /\ OnlyCatalog

\* deletePackage, part_004 lines 110-120
DeletePackage(id, o) ==
    /\ pkgTable' = IF o = "ok" THEN {r \in pkgTable : r.id # id} ELSE pkgTable
    /\ written' = [written EXCEPT !["packages"] = @ \/ pkgTable' # pkgTable]
    /\ UNCHANGED <<destTable, destInserts, lastRead, destinations,
                   packages, isDataLoading, selectedDestination, loadData, navLog>>
    /\ OnlyCatalog

\* ---- the reads ---------------------------------------------------------

\* the latest call: the outcome of its select, what it returned, and
\* whether the call before it succeeded with no write between the two
NoRead == [outcome |-> "none", rows |-> <<>>, priorOk |-> FALSE]

Pending == [state |-> "pending", rows |-> <<>>]

Done(rows) == [state |-> "done", rows |-> rows]

\* getDestinations(), called by App's loadData: the backend executes the
\* select and the function returns
GetDestinations(o) ==
    /\ loadData.dest.state = "pending"
    /\ \E result \in ListResults(o, destTable) :
          /\ loadData' = [loadData EXCEPT !.dest = Done(result)]
          /\ lastRead' = [lastRead EXCEPT !["destinations"] =
                              [outcome |-> o, rows |-> result,
                               priorOk |-> ~written["destinations"] /\ @.outcome = "ok"]]
    /\ written' = [written EXCEPT !["destinations"] = FALSE]
    /\ UNCHANGED <<destTable, pkgTable, destInserts, destinations,
                   packages, isDataLoading, selectedDestination, navLog>>
    /\ OnlyCatalog

\* getPackages(), called by App's loadData
GetPackages(o) ==
    /\ loadData.pkg.state = "pending"
    /\ \E result \in ListResults(o, pkgTable) :
          /\ loadData' = [loadData EXCEPT !.pkg = Done(result)]
          /\ lastRead' = [lastRead EXCEPT !["packages"] =
                              [outcome |-> o, rows |-> result,
                               priorOk |-> ~written["packages"] /\ @.outcome = "ok"]]
    /\ written' = [written EXCEPT !["packages"] = FALSE]
    /\ UNCHANGED <<destTable, pkgTable, destInserts, destinations,
                   packages, isDataLoading, selectedDestination, navLog>>
    /\ OnlyCatalog

Idle == [state |-> "idle", rows |-> <<>>]

\* App loadData after Promise.all, lines 59-61
LoadDataFinish ==
    /\ loadData.dest.state = "done" /\ loadData.pkg.state = "done"
    /\ destinations' = loadData.dest.rows
    /\ packages' = loadData.pkg.rows
    /\ isDataLoading' = FALSE
    /\ loadData' = [dest |-> Idle, pkg |-> Idle]
    /\ UNCHANGED <<destTable, pkgTable, destInserts, lastRead,
                   written, selectedDestination, navLog>>
    /\ OnlyCatalog

\* the page is loaded again: App is mounted afresh and its effect starts
\* loadData(), lines 52-63
ReloadPage ==
    /\ loadData.dest.state = "idle"
    /\ destinations' = <<>>
    /\ packages' = <<>>
    /\ isDataLoading' = TRUE
    /\ selectedDestination' = NoDestination
    /\ navLog' = <<>>
    /\ loadData' = [dest |-> Pending, pkg |-> Pending]
    /\ UNCHANGED <<destTable, pkgTable, destInserts, lastRead, written>>
    /\ OnlyCatalog

\* ---- the destination detail view ---------------------------------------

\* a destination card is clicked, line 421 (the cards are rendered once the
\* data is loaded; the open detail view covers them)
SelectDestination(i) ==
    /\ ~isDataLoading
    /\ selectedDestination = NoDestination
    /\ i \in 1..Len(destinations)
    /\ selectedDestination' = destinations[i]
    /\ navLog' = <<>>
    /\ UNCHANGED <<destTable, pkgTable, destInserts, lastRead,
                   written, destinations, packages, isDataLoading, loadData>>
    /\ OnlyCatalog

\* the close button, the backdrop or Escape: setSelectedDestination(null)
CloseDestination ==
    /\ selectedDestination # NoDestination
    /\ selectedDestination' = NoDestination
    /\ navLog' = <<>>
    /\ UNCHANGED <<destTable, pkgTable, destInserts, lastRead,
                   written, destinations, packages, isDataLoading, loadData>>
    /\ OnlyCatalog

\* Array.prototype.findIndex: the 0-based index of the first match, or -1
FindIndex(list, id) ==
    IF \E i \in 1..Len(list) : list[i].id = id
    THEN (CHOOSE i \in 1..Len(list) :
             list[i].id = id /\ \A j \in 1..(i - 1) : list[j].id # id) - 1
    ELSE -1

\* the % of JavaScript: the remainder takes the sign of the dividend
JsRem(a, b) == IF a >= 0 THEN a % b ELSE -((-a) % b)

\* list[i] of JavaScript, 0-based: undefined outside the array
ElementAtOneBased(list, i) ==
    IF i >= 1 /\ i <= Len(list) THEN list[i] ELSE NoDestination

ElementAt(list, i) ==
    IF i >= 0 /\ i < Len(list) THEN list[i + 1] ELSE NoDestination

\* lines 152-156
NextIndexNoWrap(direction, currentIndex, length) ==
    IF direction = "next"
    THEN JsRem(currentIndex + 1, length)
    ELSE JsRem(currentIndex - 1, length)

NextIndex(direction, currentIndex, length) ==
    IF direction = "next"
    THEN JsRem(currentIndex + 1, length)
    ELSE JsRem(currentIndex - 1 + length, length)

\* navigateDestination, lines 148-158 (the buttons of the detail view and
\* the arrow keys, lines 89-93)
NavigateDestination(direction) ==
    /\ selectedDestination # NoDestination
    /\ Len(destinations) # 0
    /\ LET currentIndex == FindIndex(destinations, selectedDestination.id)
           nextIndex == NextIndex(direction, currentIndex, Len(destinations))
       IN /\ selectedDestination' = ElementAt(destinations, nextIndex)
          /\ navLog' = LastTwo(Append(navLog, [direction |-> direction,
                                               from |-> currentIndex]))
    /\ UNCHANGED <<destTable, pkgTable, destInserts, lastRead,
                   written, destinations, packages, isDataLoading, loadData>>
    /\ OnlyCatalog

\* values the admin forms are given
DestinationNames == {"Pangong Lake"}
DestinationFiles == {Null, "photo.jpg"}
UploadOutcomes == {"none", "ok", "error"}

DestinationInputs ==
    [id : DestinationIds \cup {NoRow}, name : DestinationNames, image : {"url"}]

\* the rows an earlier administrator session left in the tables
StoredPackages ==
    {[id |-> 1, created_at |-> CreatedAt(1), name |-> "Manali Escape",
      features |-> <<>>]}

StoredDestinations(n) ==
    {[id |-> k, created_at |-> CreatedAt(k), name |-> "Pangong Lake",
      image |-> "url"] : k \in 1..n}

\* App before its first effect has run, lines 31-47
InitAppCatalog ==
    /\ lastRead = [res \in Resources |-> NoRead]
    /\ written = [res \in Resources |-> FALSE]
    /\ destinations = <<>>
    /\ packages = <<>>
    /\ isDataLoading = TRUE
    /\ selectedDestination = NoDestination
    /\ loadData = [dest |-> Pending, pkg |-> Pending]
    /\ navLog = <<>>

InitCatalogPart ==
    /\ destTable = {}
    /\ pkgTable = {}
    /\ destInserts = 0
    /\ InitAppCatalog

NextCatalog ==
    \/ \E input \in DestinationInputs, file \in DestinationFiles,
          upload \in UploadOutcomes, o \in Outcomes \cup {"none"} :
            /\ file = Null <=> upload = "none"
            /\ upload = "error" <=> o = "none"
            /\ SaveDestination(input, file, upload, o)
    \/ \E id \in DestinationIds, o \in Outcomes : DeleteDestination(id, o)
    \/ \E id \in PackageIds, o \in Outcomes : DeletePackage(id, o)
    \/ \E o \in Outcomes : GetDestinations(o)
    \/ \E o \in Outcomes : GetPackages(o)
    \/ LoadDataFinish
    \/ ReloadPage

\* the landing page over a table nobody is writing to
NextNavigation ==
    \/ \E o \in Outcomes : GetDestinations(o)
    \/ \E o \in Outcomes : GetPackages(o)
    \/ LoadDataFinish
    \/ ReloadPage
    \/ \E i \in 1..Len(destinations) : SelectDestination(i)
    \/ CloseDestination
    \/ \E direction \in {"next", "prev"} : NavigateDestination(direction)

----------------------------------------------------------------------------
(***************************************************************************)
(* Admin gate  (checkAuth, isAuthenticated, login, logout:                 *)
(* src/services/adminService.ts lines 20-34; AdminPanel:                   *)
(* src/unnamed/part_001)                                                   *)
(***************************************************************************)

Usernames == {"", "admin", "Admin"}

Passwords == {"", "himalayas123", "admin"}

\* checkAuth, lines 20-22
CheckAuthEither(u, p) == u = "admin" \/ p = "himalayas123"

CheckAuth(u, p) == u = "admin" /\ p = "himalayas123"

\* isAuthenticated, lines 24-26
IsAuthenticatedAlways == TRUE

IsAuthenticated == adminSession = "true"

\* the loadData activations in flight are numbered 1..MaxLoads
FreeLoads == (1..MaxLoads) \ {l.id : l \in bookingLoads}

\* loadData up to its await, part_001 lines 63-71: the four reads are issued
\* (setIsLoading(true) is written by the caller's action).  cause is the id
\* of the booking whose handleStatusChange called it, NoRow for another
\* caller.
LoadDataCall(cause) ==
    bookingLoads \cup
        {[id |-> CHOOSE i \in FreeLoads : \A j \in FreeLoads : i <= j,
          cause |-> cause, pc |-> "fetch", bData |-> {}]}

\* the button of the footer, App.tsx line 602: AdminPanel is mounted with
\* its initial state (lines 20-30) and its effect runs (lines 53-61)
OpenAdminPanel ==
    /\ ~isAdminPanelOpen
    /\ IsAuthenticated => FreeLoads # {}
    /\ isAdminPanelOpen' = TRUE
    /\ isLoggedIn' = IsAuthenticated
    /\ isLoading' = IsAuthenticated
    /\ username' = ""
    /\ password' = ""
    /\ error' = ""
    /\ adminBookings' = {}
    /\ bookingLoads' = IF IsAuthenticated THEN LoadDataCall(NoRow) ELSE bookingLoads
    /\ UNCHANGED <<adminSession, attempts, statusChanges>>
    /\ OnlyAdmin

\* onClose, App.tsx line 207: AdminPanel is unmounted, its state is gone.
\* The reads its loadData calls still await set the state of no mounted
\* component and are dropped; its handleStatusChange calls go on without it.
CloseAdminPanel ==
    /\ isAdminPanelOpen
    /\ isAdminPanelOpen' = FALSE
    /\ isLoggedIn' = FALSE
    /\ isLoading' = FALSE
    /\ username' = ""
    /\ password' = ""
    /\ error' = ""
    /\ adminBookings' = {}
    /\ bookingLoads' = {}
    /\ statusChanges' = [c \in DOMAIN statusChanges |->
                            [statusChanges[c] EXCEPT !.mounted = FALSE]]
    /\ UNCHANGED <<adminSession, attempts>>
    /\ OnlyAdmin

LoginFormShown == isAdminPanelOpen /\ ~isLoggedIn

\* the inputs of the login form, part_001 lines 366-380
SetUsername(v) ==
    /\ LoginFormShown
    /\ username' = v
    /\ UNCHANGED <<adminSession, isAdminPanelOpen, isLoggedIn, password,
                   error, isLoading, attempts, adminBookingVars>>
    /\ OnlyAdmin

SetPassword(v) ==
    /\ LoginFormShown
    /\ password' = v
    /\ UNCHANGED <<adminSession, isAdminPanelOpen, isLoggedIn, username,
                   error, isLoading, attempts, adminBookingVars>>
    /\ OnlyAdmin

\* handleLogin, part_001 lines 109-119
HandleLogin ==
    /\ LoginFormShown
    /\ CheckAuth(username, password) => FreeLoads # {}
    /\ attempts' = attempts \cup {<<username, password>>}
    /\ IF CheckAuth(username, password)
       THEN /\ adminSession' = "true"
            /\ isLoggedIn' = TRUE
            /\ error' = ""
            /\ isLoading' = TRUE
            /\ bookingLoads' = LoadDataCall(NoRow)
       ELSE /\ error' = "Invalid credentials"
            /\ UNCHANGED <<adminSession, isLoggedIn, isLoading, bookingLoads>>
    /\ UNCHANGED <<isAdminPanelOpen, username, password, adminBookings,
                   statusChanges>>
    /\ OnlyAdmin

\* handleLogout, part_001 lines 121-127
HandleLogout ==
    /\ isAdminPanelOpen
    /\ isLoggedIn
    /\ adminSession' = Null
    /\ isLoggedIn' = FALSE
    /\ username' = ""
    /\ password' = ""
    /\ adminBookings' = {}
    /\ UNCHANGED <<isAdminPanelOpen, error, isLoading, attempts, bookingLoads,
                   statusChanges>>
    /\ OnlyAdmin

\* fetchBookings, adminService lines 70-86: the rows, or [] when the result
\* carries an error or the request throws.  AdminPanel.bookings is modelled
\* as the set of the rows it lists; the display order plays no part.
FetchBookings(o) == IF o = "ok" THEN bookings ELSE {}

\* fetchUsers, adminService lines 124-137: the rows, or [] on an error
FetchUsers(o) == IF o = "ok" THEN Orderings(profiles) ELSE {<<>>}

\* the backend executes the select of a loadData call's fetchBookings
FetchBookingsRead(l, o) ==
    /\ l \in bookingLoads
    /\ l.pc = "fetch"
    /\ bookingLoads' = (bookingLoads \ {l}) \cup
           {[l EXCEPT !.pc = "fetched", !.bData = FetchBookings(o)]}
    /\ UNCHANGED <<adminSession, isAdminPanelOpen, isLoggedIn, username,
                   password, error, isLoading, attempts, adminBookings,
                   statusChanges>>
    /\ OnlyAdmin

\* what a step of loadData leaves alone
OnlyLoadData ==
    UNCHANGED <<wishlistVars, bookingVars, catalogVars, authVars, pkgText,
                editingPkg, isEditingPkg, pkgSaveStatus, pkgSave, pkgAlert,
                pkgInserts, seeds, destFormVars, editingUser, newPassword,
                isEditingUser, userSave, userAlert, notifyVars,
                authModalVars,
                landingVars>>

\* loadData after Promise.all, part_001 lines 72-76: the other three reads
\* have been answered, each with any outcome, and the four lists are set
AdminLoadDataFinish(l) ==
    /\ isAdminPanelOpen
    /\ l \in bookingLoads
    /\ l.pc = "fetched"
    /\ adminBookings' = l.bData
    /\ \E result \in UNION {ListResults(o, destTable) : o \in Outcomes} :
          adminDestinations' = result
    /\ \E result \in UNION {ListResults(o, pkgTable) : o \in Outcomes} :
          adminPackages' = result
    /\ \E result \in UNION {FetchUsers(o) : o \in Outcomes} :
          adminUsers' = result
    /\ isLoading' = FALSE
    /\ bookingLoads' = bookingLoads \ {l}
    /\ UNCHANGED <<adminSession, isAdminPanelOpen, isLoggedIn, username,
                   password, error, attempts, statusChanges>>
    /\ OnlyLoadData

\* ---- the bookings tab --------------------------------------------------

\* the options of the status select, part_001 lines 501-504
Statuses == {"pending", "confirmed", "completed", "cancelled"}

BookingIds == {r.id : r \in bookings}

\* prev.map(b => b.id === id ? { ...b, status: newStatus } : b)
WithStatus(rows, id, newStatus) ==
    {IF r.id = id THEN [r EXCEPT !.status = newStatus] ELSE r : r \in rows}

\* update({ status }).eq('id', id), adminService lines 90-93
UpdateStatusOfAll(rows, id, newStatus) ==
    {[r EXCEPT !.status = newStatus] : r \in rows}

UpdateStatus(rows, id, newStatus) == WithStatus(rows, id, newStatus)

\* outcomes of the update: accepted; answered with an error; failing with
\* an exception; applied by the backend with the response lost on the way
UpdateOutcomes == {"ok", "error", "throw", "lost"}

\* updateBookingStatus lines 95-102: the boolean it returns
UpdateBookingStatusResult(o) == o = "ok"

\* handleStatusChange up to its await, part_001 lines 131-133: the select
\* of a listed booking is set to another option; the local list is updated
\* and the update request is issued
HandleStatusChange(id, newStatus) ==
    /\ isAdminPanelOpen
    /\ isLoggedIn
    /\ Len(statusChanges) < MaxStatusChanges
    /\ \E b \in adminBookings : b.id = id /\ b.status # newStatus
    /\ adminBookings' = WithStatus(adminBookings, id, newStatus)
    /\ statusChanges' = Append(statusChanges,
           [id |-> id, status |-> newStatus, pc |-> "update", mounted |-> TRUE,
            success |-> FALSE])
    /\ UNCHANGED bookingLoads
    /\ UNCHANGED <<bookings, adminVars>>
    /\ UNCHANGED <<wishlistVars, bkNextId, bkAccepted, user, isBookingModalOpen,
                   selectedBookingPackage, formData, status, bmMountedAt,
                   bmSubmits, bmCalls, bmTimers, catalogVars, authVars,
                   pkgFormVars, seedVars, destFormVars, userFormVars,
                   notifyVars, authModalVars, landingVars>>

\* the refresh button of the bookings tab, part_001 line 440: loadData
RefreshBookings ==
    /\ isAdminPanelOpen
    /\ isLoggedIn
    /\ ~isLoading
    /\ FreeLoads # {}
    /\ isLoading' = TRUE
    /\ bookingLoads' = LoadDataCall(NoRow)
    /\ UNCHANGED <<adminSession, isAdminPanelOpen, isLoggedIn, username,
                   password, error, attempts, adminBookings, statusChanges>>
    /\ OnlyAdmin

\* the backend executes the update and handleStatusChange goes on, lines
\* 133-137: after a failure it calls loadData() and shows the alert
UpdateBookingStatus(c, o) ==
    /\ c \in DOMAIN statusChanges
    /\ statusChanges[c].pc = "update"
    /\ LET call == statusChanges[c]
           success == UpdateBookingStatusResult(o)
           reloads == ~success /\ call.mounted
       IN /\ reloads => FreeLoads # {}
          /\ bookings' = IF o \in {"ok", "lost"}
                         THEN UpdateStatus(bookings, call.id, call.status)
                         ELSE bookings
          /\ bookingLoads' = IF reloads THEN LoadDataCall(call.id) ELSE bookingLoads
          /\ isLoading' = IF reloads THEN TRUE ELSE isLoading
          /\ statusChanges' = [statusChanges EXCEPT ![c] =
                 [@ EXCEPT !.pc = "done", !.success = success]]
    /\ UNCHANGED <<adminSession, isAdminPanelOpen, isLoggedIn, username,
                   password, error, attempts, adminBookings>>
    /\ UNCHANGED <<wishlistVars, bkNextId, bkAccepted, user, isBookingModalOpen,
                   selectedBookingPackage, formData, status, bmMountedAt,
                   bmSubmits, bmCalls, bmTimers, catalogVars, authVars,
                   pkgFormVars, seedVars, destFormVars, userFormVars,
                   notifyVars, authModalVars, landingVars>>

InitAdminPart ==
    /\ adminSession = Null
    /\ isAdminPanelOpen = FALSE
    /\ isLoggedIn = FALSE
    /\ username = ""
    /\ password = ""
    /\ error = ""
    /\ isLoading = FALSE
    /\ attempts = {}

InitAdminBookingsPart ==
    /\ adminBookings = {}
    /\ bookingLoads = {}
    /\ statusChanges = <<>>

\* the bookings tab of an open panel over the bookings customers have made;
\* the administrator logs out and logs in again with the right credentials
NextAdminBookings ==
    \/ SetUsername("admin")
    \/ SetPassword("himalayas123")
    \/ CheckAuth(username, password) /\ HandleLogin
    \/ HandleLogout
    \/ RefreshBookings
    \/ \E l \in bookingLoads, o \in Outcomes : FetchBookingsRead(l, o)
    \/ \E l \in bookingLoads : AdminLoadDataFinish(l)
    \/ \E id \in BookingIds, newStatus \in Statuses :
          HandleStatusChange(id, newStatus)
    \/ \E c \in DOMAIN statusChanges, o \in UpdateOutcomes :
          UpdateBookingStatus(c, o)

\* no request of the panel is awaiting its answer
PanelQuiet ==
    /\ bookingLoads = {}
    /\ \A c \in DOMAIN statusChanges : statusChanges[c].pc = "done"

\* a customer submits a booking (the insert is accepted or answered with an
\* error) while an administrator works on the list, one request at a time
NextBookingStatus ==
    \/ HandleSubmit
    \/ \E c \in bmCalls, o \in {"ok", "error"} : CreateBookingInsert(c, o)
    \/ \E c \in bmCalls : HandleSubmitResume(c)
    \/ \E n \in bmTimers : AutoClose(n)
    \/ PanelQuiet /\ RefreshBookings
    \/ \E l \in bookingLoads, o \in Outcomes : FetchBookingsRead(l, o)
    \/ \E l \in bookingLoads : AdminLoadDataFinish(l)
    \/ \E id \in BookingIds, newStatus \in Statuses :
          PanelQuiet /\ HandleStatusChange(id, newStatus)
    \/ \E c \in DOMAIN statusChanges, o \in UpdateOutcomes :
          UpdateBookingStatus(c, o)

NextAdmin ==
    \/ OpenAdminPanel
    \/ CloseAdminPanel
    \/ \E v \in Usernames : SetUsername(v)
    \/ \E v \in Passwords : SetPassword(v)
    \/ HandleLogin
    \/ HandleLogout
    \/ \E l \in bookingLoads, o \in Outcomes : FetchBookingsRead(l, o)
    \/ \E l \in bookingLoads : AdminLoadDataFinish(l)

----------------------------------------------------------------------------
(***************************************************************************)
(* Auth service  (src/services/authService.ts).  The auth backend keeps    *)
(* one account per email; the profiles table has one row per account id,   *)
(* created by the server-side trigger or by the client's upsert.           *)
(***************************************************************************)

\* characters a username is typed from: a lower-case letter, an upper-case
\* letter and a character that is neither a letter nor a digit
Alphabet == {"a", "B", "-"}

LowerAlnum == {"a", "b"}

Strings(n) == UNION {[1..k -> Alphabet] : k \in 0..n}

\* String.prototype.toLowerCase, character by character
ToLowerCaseNone(c) == c

ToLowerCase(c) == IF c = "B" THEN "b" ELSE c

\* replace(/[^a-z0-9]/g, ''): the characters outside the class are removed
InClass(c) == c \in LowerAlnum

\* getEmailFromUsername, line 11
GetEmailFromUsername(uname) ==
    LET lower == [i \in 1..Len(uname) |-> ToLowerCase(uname[i])]
    IN SelectSeq(lower, InClass) \o <<"@unexplore.com">>

\* ids the auth backend has to give
AccountIds == {"id1"}

NoCall ==
    [kind |-> "none", pc |-> "idle", username |-> <<>>, email |-> <<>>,
     auth |-> "none", user |-> Null, session |-> FALSE, profileWrites |-> 0,
     upsert |-> "none", data |-> Null, error |-> Null]

Registered(email) == \E a \in accounts : a.email = email

\* signUpUser, lines 21-38: the email is derived and auth.signUp is issued
SignUpRequest(uname) ==
    [NoCall EXCEPT !.kind = "signUp", !.pc = "auth", !.username = uname,
                   !.email = GetEmailFromUsername(uname)]

SignUpCall(uname) ==
    /\ authCall.pc \in {"idle", "done"}
    /\ authCall' = SignUpRequest(uname)
    /\ UNCHANGED <<accounts, profiles>>
    /\ OnlyAuth

\* what auth.signUp may answer: a user with a session, a user without one
\* (email confirmation pending, or the masked answer for a taken email), an
\* error, no user at all, or an exception
SignUpOutcomes == {"session", "nosession", "error", "nouser", "throw"}

\* the row the trigger handle_new_user or the client's upsert writes
ProfileRow(id, uname) ==
    [id |-> id, username |-> uname, full_name |-> "", role |-> "user"]

\* the backend executes auth.signUp and signUpUser runs on, lines 40-47
SignUpAuth(o, id, trigger) ==
    /\ authCall.kind = "signUp" /\ authCall.pc = "auth"
    /\ LET taken == Registered(authCall.email)
           created == o \in {"session", "nosession"} /\ ~taken
       IN /\ o = "session" => ~taken
          /\ created => id \notin {a.id : a \in accounts}
          /\ accounts' = IF created
                         THEN accounts \cup {[id |-> id,
                                              email |-> authCall.email,
                                              username |-> authCall.username]}
                         ELSE accounts
          /\ profiles' = IF created /\ trigger
                         THEN profiles \cup {ProfileRow(id, authCall.username)}
                         ELSE profiles
    /\ authCall' =
         CASE o = "error" ->
                [authCall EXCEPT !.pc = "done", !.auth = o,
                                 !.error = "authError"]
           [] o = "nouser" ->
                [authCall EXCEPT !.pc = "done", !.auth = o,
                                 !.error = "No user created"]
           [] o = "throw" ->
                [authCall EXCEPT !.pc = "done", !.auth = o, !.error = "thrown"]
           [] o = "nosession" ->
                [authCall EXCEPT !.pc = "done", !.auth = o, !.user = id,
                                 !.data = "authData"]
           [] o = "session" ->
                [authCall EXCEPT !.pc = "profile", !.auth = o, !.user = id,
                                 !.session = TRUE, !.profileWrites = 1]
    /\ OnlyAuth

\* what the upsert may answer: done, refused by row-level security (code
\* 42501), another error, or an exception
UpsertOutcomes == {"ok", "42501", "error", "throw"}

\* upsert(row, { onConflict: 'id' }): the row replaces the one of that id
Upsert(row) == {r \in profiles : r.id # row.id} \cup {row}

\* what signUpUser answers after the upsert, lines 59-69
SignUpErrorStrict(o) ==
    IF o = "throw" THEN "thrown" ELSE IF o = "ok" THEN Null ELSE "profileError"

SignUpError(o) == IF o = "throw" THEN "thrown" ELSE Null

\* the backend executes the upsert and signUpUser returns, lines 48-69
SignUpProfile(o) ==
    /\ authCall.kind = "signUp" /\ authCall.pc = "profile"
    /\ profiles' = IF o = "ok"
                   THEN Upsert(ProfileRow(authCall.user, authCall.username))
                   ELSE profiles
    /\ authCall' = [authCall EXCEPT
                       !.pc = "done",
                       !.upsert = o,
                       !.error = SignUpError(o),
                       !.data = IF SignUpError(o) = Null
                                THEN "authData" ELSE Null]
    /\ UNCHANGED accounts
    /\ OnlyAuth

\* signInUser, lines 72-77: the email is derived and signInWithPassword is
\* issued
SignInRequest(uname) ==
    [NoCall EXCEPT !.kind = "signIn", !.pc = "auth", !.username = uname,
                   !.email = GetEmailFromUsername(uname)]

SignInCall(uname) ==
    /\ authCall.pc \in {"idle", "done"}
    /\ authCall' = SignInRequest(uname)
    /\ UNCHANGED <<accounts, profiles>>
    /\ OnlyAuth

\* the backend executes signInWithPassword and signInUser returns, line 78
SignInAuth(o) ==
    /\ authCall.kind = "signIn" /\ authCall.pc = "auth"
    /\ o = "ok" => Registered(authCall.email)
    /\ authCall' =
         CASE o = "ok" ->
                [authCall EXCEPT
                    !.pc = "done", !.auth = o, !.session = TRUE,
                    !.data = "authData",
                    !.user = (CHOOSE a \in accounts :
                                 a.email = authCall.email).id]
           [] o = "error" ->
                [authCall EXCEPT !.pc = "done", !.auth = o,
                                 !.error = "authError"]
           [] o = "throw" ->
                [authCall EXCEPT !.pc = "done", !.auth = o, !.error = "thrown"]
    /\ UNCHANGED <<accounts, profiles>>
    /\ OnlyAuth

InitAuthPart ==
    /\ accounts = {}
    /\ profiles = {}
    /\ authCall = NoCall

NextAuth ==
    \/ \E uname \in Strings(MaxNameLen) : SignUpCall(uname)
    \/ \E o \in SignUpOutcomes, id \in AccountIds, trigger \in BOOLEAN :
          SignUpAuth(o, id, trigger)
    \/ \E o \in UpsertOutcomes : SignUpProfile(o)
    \/ \E uname \in Strings(MaxNameLen) : SignInCall(uname)
    \/ \E o \in Outcomes : SignInAuth(o)

----------------------------------------------------------------------------
(***************************************************************************)
(* Package form of the admin panel  (src/unnamed/part_001 lines 246-289)   *)
(* and savePackage  (src/unnamed/part_004 lines 73-108).  A text is a      *)
(* sequence of characters; a feature list is a sequence of texts.          *)
(***************************************************************************)

TextChars == {"A", "B", " ", "\n"}

\* the features field is `required`: the browser submits no empty text
Texts == UNION {[1..k -> TextChars] : k \in 1..MaxTextLen}

\* String.prototype.split('\n')
RECURSIVE SplitLines(_)
SplitLines(text) ==
    IF \A i \in 1..Len(text) : text[i] # "\n"
    THEN <<text>>
    ELSE LET i == CHOOSE k \in 1..Len(text) :
                     text[k] = "\n" /\ \A j \in 1..(k - 1) : text[j] # "\n"
         IN <<SubSeq(text, 1, i - 1)>>
                \o SplitLines(SubSeq(text, i + 1, Len(text)))

\* Array.prototype.join('\n'), the value the textarea shows (line 895)
RECURSIVE JoinLines(_)
JoinLines(lines) ==
    IF lines = <<>> THEN <<>>
    ELSE IF Len(lines) = 1 THEN lines[1]
    ELSE lines[1] \o <<"\n">> \o JoinLines(Tail(lines))

\* String.prototype.trim
RECURSIVE TrimStart(_)
TrimStart(f) ==
    IF f # <<>> /\ Head(f) \in {" ", "\n"} THEN TrimStart(Tail(f)) ELSE f

RECURSIVE TrimEnd(_)
TrimEnd(f) ==
    IF f # <<>> /\ f[Len(f)] \in {" ", "\n"}
    THEN TrimEnd(SubSeq(f, 1, Len(f) - 1)) ELSE f

Trim(f) == TrimEnd(TrimStart(f))

\* editingPkg.features.filter(f => f.trim() !== ''), line 278
KeptUntrimmed(f) == f # <<>>

Kept(f) == Trim(f) # <<>>

CleanFeatures(features) == SelectSeq(features, Kept)

NoPkg == [id |-> NoRow, name |-> "", features |-> <<>>]

PkgNames == {"", "Manali Escape"}

\* startEditPackage, lines 246-259
StartEditPackage(pkg) ==
    /\ isAdminPanelOpen /\ isLoggedIn
    /\ ~isEditingPkg
    /\ editingPkg' = IF pkg = NoPkg
                     THEN [id |-> NoRow, name |-> "", features |-> <<>>,
                           open |-> TRUE]
                     ELSE [id |-> pkg.id, name |-> pkg.name,
                           features |-> pkg.features, open |-> TRUE]
    /\ isEditingPkg' = TRUE
    /\ UNCHANGED <<pkgText, pkgSaveStatus, pkgSave, pkgAlert, pkgInserts,
                   adminPackages, pkgTable>>
    /\ UNCHANGED adminDestinations
    /\ UNCHANGED adminBookings
    /\ OnlyPkgForm

\* Cancel, line 844: the form is hidden, editingPkg is kept
CancelEditPackage ==
    /\ isEditingPkg
    /\ isEditingPkg' = FALSE
    /\ UNCHANGED <<pkgText, editingPkg, pkgSaveStatus, pkgSave, pkgAlert,
                   pkgInserts, adminPackages, pkgTable>>
    /\ UNCHANGED adminDestinations
    /\ UNCHANGED adminBookings
    /\ OnlyPkgForm

\* handlePkgChange, lines 261-264 (the name field)
HandlePkgChange(value) ==
    /\ isEditingPkg
    /\ editingPkg # NoPkg
    /\ editingPkg' = [editingPkg EXCEPT !.name = value]
    /\ UNCHANGED <<pkgText, isEditingPkg, pkgSaveStatus, pkgSave, pkgAlert,
                   pkgInserts, adminPackages, pkgTable>>
    /\ UNCHANGED adminDestinations
    /\ UNCHANGED adminBookings
    /\ OnlyPkgForm

\* handlePkgFeaturesChange, lines 266-270: the text is entered
HandlePkgFeaturesChange ==
    /\ isEditingPkg
    /\ editingPkg # NoPkg
    /\ editingPkg' = [editingPkg EXCEPT !.features = SplitLines(pkgText)]
    /\ UNCHANGED <<pkgText, isEditingPkg, pkgSaveStatus, pkgSave, pkgAlert,
                   pkgInserts, adminPackages, pkgTable>>
    /\ UNCHANGED adminDestinations
    /\ UNCHANGED adminBookings
    /\ OnlyPkgForm

\* the form can be submitted: it is shown, its required fields have a
\* value and the button is not disabled (lines 859, 897, 906)
PkgSubmitEnabled ==
    /\ isEditingPkg
    /\ editingPkg # NoPkg
    /\ editingPkg.name # ""
    /\ JoinLines(editingPkg.features) # <<>>
    /\ pkgSaveStatus # "saving"

NoPkgSave == [pc |-> "idle", payload |-> NoPkg]

\* handlePkgSave up to the request of savePackage, lines 272-279 and
\* part_004 lines 75-97
HandlePkgSave ==
    /\ PkgSubmitEnabled
    /\ pkgSave.pc = "idle"
    /\ pkgSaveStatus' = "saving"
    /\ pkgSave' = [pc |-> "request",
                   payload |-> [id |-> editingPkg.id,
                                name |-> editingPkg.name,
                                features |-> CleanFeatures(editingPkg.features)]]
    /\ pkgAlert' = ""
    /\ UNCHANGED <<pkgText, editingPkg, isEditingPkg, pkgInserts,
                   adminPackages, pkgTable>>
    /\ UNCHANGED adminDestinations
    /\ UNCHANGED adminBookings
    /\ OnlyPkgForm

\* savePackage's result, part_004 lines 99-106
SavePackageResult(o) == o = "ok"

\* the backend executes the insert or update; savePackage returns and
\* handlePkgSave runs on, lines 281-288
SavePackageWrite(o) ==
    /\ pkgSave.pc = "request"
    /\ pkgSave.payload.id = NoRow /\ o = "ok" => pkgInserts < MaxPkgInserts
    /\ LET p == pkgSave.payload IN
       IF o # "ok"
       THEN UNCHANGED <<pkgTable, pkgInserts>>
       ELSE IF p.id # NoRow
       THEN /\ pkgTable' = {IF r.id = p.id
                            THEN [r EXCEPT !.name = p.name,
                                           !.features = p.features]
                            ELSE r : r \in pkgTable}
            /\ UNCHANGED pkgInserts
       ELSE /\ pkgTable' = pkgTable \cup
                   {[id |-> pkgInserts + 2,
                     created_at |-> CreatedAt(pkgInserts + 2),
                     name |-> p.name, features |-> p.features]}
            /\ pkgInserts' = pkgInserts + 1
    /\ IF SavePackageResult(o)
       THEN /\ isEditingPkg' = FALSE
            /\ editingPkg' = NoPkg
            /\ pkgSave' = [pkgSave EXCEPT !.pc = "loading"]
            /\ UNCHANGED <<pkgSaveStatus, pkgAlert>>
       ELSE /\ pkgAlert' = "Failed to save package."
            /\ pkgSaveStatus' = "idle"
            /\ pkgSave' = NoPkgSave
            /\ UNCHANGED <<isEditingPkg, editingPkg>>
    /\ UNCHANGED <<pkgText, adminPackages>>
    /\ UNCHANGED adminDestinations
    /\ UNCHANGED adminBookings
    /\ OnlyPkgForm

\* loadData of the panel has read the packages; handlePkgSave ends,
\* lines 284 and 288
PkgSaveLoaded(o) ==
    /\ pkgSave.pc = "loading"
    /\ \E result \in ListResults(o, pkgTable) : adminPackages' = result
    /\ \E od \in Outcomes :
            \E result \in ListResults(od, destTable) :
                adminDestinations' = result
    /\ pkgSaveStatus' = "idle"
    /\ pkgSave' = NoPkgSave
    /\ UNCHANGED <<pkgText, editingPkg, isEditingPkg, pkgAlert, pkgInserts,
                   pkgTable>>
    /\ \E ob \in Outcomes : adminBookings' = FetchBookings(ob)
    /\ OnlyPkgForm

InitPkgFormPart ==
    /\ pkgText = <<"A">>
    /\ editingPkg = NoPkg
    /\ isEditingPkg = FALSE
    /\ pkgSaveStatus = "idle"
    /\ pkgSave = NoPkgSave
    /\ pkgAlert = ""
    /\ pkgInserts = 0
    /\ adminPackages = <<>>

RowsIn(list) == {list[i] : i \in 1..Len(list)}

NextPkgForm ==
    \/ \E pkg \in RowsIn(adminPackages) \cup {NoPkg} : StartEditPackage(pkg)
    \/ CancelEditPackage
    \/ \E value \in PkgNames : HandlePkgChange(value)
    \/ HandlePkgFeaturesChange
    \/ HandlePkgSave
    \/ \E o \in Outcomes : SavePackageWrite(o)
    \/ \E o \in Outcomes : PkgSaveLoaded(o)

----------------------------------------------------------------------------
(***************************************************************************)
(* Seeding  (src/unnamed/part_001 lines 79-107, handleSeedDatabase).  The  *)
(* button is shown while the panel's list of destinations or of packages   *)
(* is empty and is not disabled while a seeding runs.                      *)
(***************************************************************************)

\* FALLBACK_DESTINATIONS, adminService.ts lines 186-211
FallbackDestinations == <<"Pangong Lake", "Spiti Valley", "Kedarnath">>

\* FALLBACK_PACKAGES, part_004 lines 27-52
FallbackPackages == <<"Manali Escape", "Ladakh Expedition", "Char Dham Yatra">>

\* the records one seeding saves, in the order of its two loops
SeedRecords ==
    [i \in 1..Len(FallbackDestinations) |->
        [table |-> "destinations", name |-> FallbackDestinations[i]]]
    \o [i \in 1..Len(FallbackPackages) |->
        [table |-> "packages", name |-> FallbackPackages[i]]]

SeedButtonShown ==
    /\ isAdminPanelOpen /\ isLoggedIn
    /\ adminDestinations = <<>> \/ adminPackages = <<>>

\* handleSeedDatabase is confirmed, lines 80-81, and the first
\* saveDestination is called
HandleSeedDatabase ==
    /\ SeedButtonShown
    /\ Len(seeds) < MaxSeeds
    \* explored for an administrator who starts a seeding while no other
    \* seeding is in its loops (one that is reloading may still be running)
    /\ \A a \in 1..Len(seeds) : seeds[a].pc # "saving"
    /\ seeds' = Append(seeds, [pc |-> "saving", requests |-> 1, oks |-> {}])
    /\ isLoading' = TRUE
    /\ UNCHANGED <<destTable, pkgTable, destInserts, pkgInserts,
                   adminDestinations, adminPackages>>
    /\ UNCHANGED adminBookings
    /\ OnlySeed

\* whether a seeding leaves out a record the table already holds: both
\* loops save every record, lines 84-101
SkipsInsertIfStored(rec) ==
    IF rec.table = "destinations"
    THEN \E r \in destTable : r.name = rec.name
    ELSE \E r \in pkgTable : r.name = rec.name

SkipsInsert(rec) == FALSE

\* the requests of a seeding that the backend has answered (oks: those it
\* was ready to accept), and those of all seedings that it has refused
Answered(a) ==
    IF seeds[a].pc = "saving" THEN seeds[a].requests - 1 ELSE Len(SeedRecords)

RECURSIVE SeedFailures(_)
SeedFailures(n) ==
    IF n = 0 THEN 0
    ELSE SeedFailures(n - 1) + Answered(n) - Cardinality(seeds[n].oks)

\* the backend executes the insert of the record a seeding is waiting for;
\* saveDestination / savePackage returns, its result is dropped and the
\* loop goes on to the next record or to loadData, lines 84-105
SeedInsert(a, o) ==
    /\ a \in 1..Len(seeds)
    /\ seeds[a].pc = "saving"
    /\ o # "ok" => SeedFailures(Len(seeds)) < MaxSeedFailures
    /\ LET k == seeds[a].requests
           rec == SeedRecords[k]
           stored == o = "ok" /\ ~SkipsInsert(rec)
       IN /\ IF stored /\ rec.table = "destinations"
             THEN /\ destTable' = destTable \cup
                        {[id |-> destInserts + 1,
                          created_at |-> CreatedAt(destInserts + 1),
                          name |-> rec.name, image |-> "url"]}
                  /\ destInserts' = destInserts + 1
             ELSE UNCHANGED <<destTable, destInserts>>
          /\ IF stored /\ rec.table = "packages"
             THEN /\ pkgTable' = pkgTable \cup
                        {[id |-> pkgInserts + 2,
                          created_at |-> CreatedAt(pkgInserts + 2),
                          name |-> rec.name, features |-> <<>>]}
                  /\ pkgInserts' = pkgInserts + 1
             ELSE UNCHANGED <<pkgTable, pkgInserts>>
          /\ seeds' = [seeds EXCEPT ![a] =
                [pc |-> IF k = Len(SeedRecords) THEN "loading" ELSE "saving",
                 requests |-> IF k = Len(SeedRecords) THEN k ELSE k + 1,
                 oks |-> IF o = "ok" THEN @.oks \cup {k} ELSE @.oks]]
    /\ UNCHANGED <<isLoading, adminDestinations, adminPackages>>
    /\ UNCHANGED adminBookings
    /\ OnlySeed

\* loadData has read the lists; the seeding ends, lines 104-105
SeedLoaded(a, od, op) ==
    /\ a \in 1..Len(seeds)
    /\ seeds[a].pc = "loading"
    /\ \E result \in ListResults(od, destTable) : adminDestinations' = result
    /\ \E result \in ListResults(op, pkgTable) : adminPackages' = result
    /\ isLoading' = FALSE
    /\ seeds' = [seeds EXCEPT ![a].pc = "done"]
    /\ UNCHANGED <<destTable, pkgTable, destInserts, pkgInserts>>
    /\ \E ob \in Outcomes : adminBookings' = FetchBookings(ob)
    /\ OnlySeed

InitSeedPart ==
    /\ seeds = <<>>
    /\ adminDestinations = <<>>

NextSeed ==
    \/ HandleSeedDatabase
    \/ \E a \in 1..Len(seeds), o \in {"ok", "error"} : SeedInsert(a, o)
    \/ \E a \in 1..Len(seeds), od, op \in {"ok", "error"} : SeedLoaded(a, od, op)

----------------------------------------------------------------------------
(***************************************************************************)
(* The destination form of the panel  (src/unnamed/part_001 lines          *)
(* 184-231) over saveDestination and uploadDestinationImage                *)
(* (adminService.ts lines 234-308), one step per await.                    *)
(***************************************************************************)

NoDest == [id |-> NoRow, name |-> "", image |-> "", open |-> FALSE]

\* startEditDestination, lines 186-196
StartEditDestination(dest) ==
    /\ isAdminPanelOpen /\ isLoggedIn
    /\ ~isEditingDest
    /\ editingDest' = IF dest = NoDestination
                      THEN [id |-> NoRow, name |-> "", image |-> "",
                            open |-> TRUE]
                      ELSE [id |-> dest.id, name |-> dest.name,
                            image |-> dest.image, open |-> TRUE]
    /\ destImageFile' = Null
    /\ isEditingDest' = TRUE
    /\ UNCHANGED <<destSaveStatus, destSave, destAlert,  destTable,
                   destInserts, adminDestinations, adminPackages>>
    /\ UNCHANGED adminBookings
    /\ OnlyDestForm

\* Cancel, line 696: the form is hidden, editingDest is kept
CancelEditDestination ==
    /\ isEditingDest
    /\ isEditingDest' = FALSE
    /\ UNCHANGED <<editingDest, destImageFile, destSaveStatus, destSave,
                   destAlert,  destTable, destInserts,
                   adminDestinations, adminPackages>>
    /\ UNCHANGED adminBookings
    /\ OnlyDestForm

\* handleDestChange, lines 198-201 (the name field)
HandleDestChange(value) ==
    /\ isEditingDest
    /\ editingDest # NoDest
    /\ editingDest' = [editingDest EXCEPT !.name = value]
    /\ UNCHANGED <<destImageFile, isEditingDest, destSaveStatus, destSave,
                   destAlert,  destTable, destInserts,
                   adminDestinations, adminPackages>>
    /\ UNCHANGED adminBookings
    /\ OnlyDestForm

\* handleDestImageSelect, lines 203-213
HandleDestImageSelect(file) ==
    /\ isEditingDest
    /\ file # Null
    /\ destImageFile' = file
    /\ UNCHANGED <<editingDest, isEditingDest, destSaveStatus, destSave,
                   destAlert,  destTable, destInserts,
                   adminDestinations, adminPackages>>
    /\ UNCHANGED adminBookings
    /\ OnlyDestForm

\* the form can be submitted: required name, line 711, and the button is
\* enabled, line 770
DestSubmitEnabled ==
    /\ isEditingDest
    /\ editingDest # NoDest
    /\ editingDest.name # ""
    /\ destSaveStatus # "saving"

NoDestSave ==
    [pc |-> "idle", destination |-> NoDest, file |-> Null, upload |-> Null,
     imageUrl |-> "", result |-> Null]

\* (result: what saveDestination returned, "true" or "false")
\* handleDestSave up to the first await of saveDestination: the upload when
\* a file is given, the write otherwise; lines 215-220 and 263-270
HandleDestSave ==
    /\ DestSubmitEnabled
    /\ destSave.pc = "idle"
    /\ destSaveStatus' = "saving"
    /\ destSave' = [pc |-> IF destImageFile # Null THEN "upload" ELSE "write",
                    destination |-> editingDest,
                    file |-> destImageFile,
                    upload |-> Null,
                    imageUrl |-> editingDest.image,
                    result |-> Null]
    /\ destAlert' = ""
    /\ UNCHANGED <<editingDest, destImageFile, isEditingDest, 
                   destTable, destInserts, adminDestinations, adminPackages>>
    /\ UNCHANGED adminBookings
    /\ OnlyDestForm

\* if (!uploadedUrl) return false, line 267
UploadAbortsNever(uploadedUrl) == FALSE

UploadAborts(uploadedUrl) == uploadedUrl = Null

\* the storage answers the upload; uploadDestinationImage returns the public
\* URL or null, lines 240-254; saveDestination goes on to the write or
\* returns false, lines 266-268, and then handleDestSave alerts, lines
\* 226-229
UploadDestinationImage(o) ==
    /\ destSave.pc = "upload"
    /\ LET uploadedUrl == UploadedUrl(o) IN
       IF UploadAborts(uploadedUrl)
       THEN /\ destSave' = [destSave EXCEPT !.pc = "idle", !.upload = o,
                                            !.result = "false"]
            /\ destAlert' = "Failed to save destination."
            /\ destSaveStatus' = "idle"
       ELSE /\ destSave' = [destSave EXCEPT !.pc = "write", !.upload = o,
                                            !.imageUrl = uploadedUrl]
            /\ UNCHANGED <<destAlert, destSaveStatus>>
    /\ UNCHANGED <<editingDest, destImageFile, isEditingDest, destTable,
                   destInserts, adminDestinations, adminPackages>>
    /\ UNCHANGED adminBookings
    /\ OnlyDestForm

\* the backend executes the update or insert; saveDestination returns and
\* handleDestSave runs on to loadData or to its alert, lines 272-229
SaveDestinationWrite(o) ==
    /\ destSave.pc = "write"
    /\ destSave.destination.id = NoRow /\ o = "ok"
            => destInserts < MaxDestInserts
    /\ LET d == destSave.destination IN
       IF o # "ok"
       THEN UNCHANGED <<destTable, destInserts>>
       ELSE IF d.id # NoRow
       THEN /\ destTable' = {IF r.id = d.id
                             THEN [r EXCEPT !.name = d.name,
                                            !.image = destSave.imageUrl]
                             ELSE r : r \in destTable}
            /\ UNCHANGED destInserts
       ELSE /\ destTable' = destTable \cup
                   {[id |-> destInserts + 1,
                     created_at |-> CreatedAt(destInserts + 1),
                     name |-> d.name, image |-> destSave.imageUrl]}
            /\ destInserts' = destInserts + 1
    /\ IF o = "ok"
       THEN /\ isEditingDest' = FALSE
            /\ editingDest' = NoDest
            /\ destImageFile' = Null
            /\ destSave' = [destSave EXCEPT !.pc = "loading", !.result = "true"]
            /\ UNCHANGED <<destSaveStatus, destAlert>>
       ELSE /\ destAlert' = "Failed to save destination."
            /\ destSaveStatus' = "idle"
            /\ destSave' = [destSave EXCEPT !.pc = "idle", !.result = "false"]
            /\ UNCHANGED <<isEditingDest, editingDest, destImageFile>>
    /\ UNCHANGED <<adminDestinations, adminPackages>>
    /\ UNCHANGED adminBookings
    /\ OnlyDestForm

\* loadData of the panel has read the lists; handleDestSave ends, lines
\* 225 and 230
DestSaveLoaded(od, op) ==
    /\ destSave.pc = "loading"
    /\ \E result \in ListResults(od, destTable) : adminDestinations' = result
    /\ \E result \in ListResults(op, pkgTable) : adminPackages' = result
    /\ destSaveStatus' = "idle"
    /\ destSave' = [destSave EXCEPT !.pc = "idle"]
    /\ UNCHANGED <<editingDest, destImageFile, isEditingDest, destAlert,
                   destTable, destInserts>>
    /\ \E ob \in Outcomes : adminBookings' = FetchBookings(ob)
    /\ OnlyDestForm

InitDestFormPart ==
    /\ editingDest = NoDest
    /\ destImageFile = Null
    /\ isEditingDest = FALSE
    /\ destSaveStatus = "idle"
    /\ destSave = NoDestSave
    /\ destAlert = ""

NextDestForm ==
    \/ \E dest \in RowsIn(adminDestinations) \cup {NoDestination} :
            StartEditDestination(dest)
    \/ CancelEditDestination
    \/ \E value \in DestinationNames : HandleDestChange(value)
    \/ \E file \in DestinationFiles : HandleDestImageSelect(file)
    \/ HandleDestSave
    \/ \E o \in Outcomes : UploadDestinationImage(o)
    \/ \E o \in Outcomes : SaveDestinationWrite(o)
    \/ \E od, op \in Outcomes : DestSaveLoaded(od, op)

----------------------------------------------------------------------------
(***************************************************************************)
(* The user form of the panel  (src/unnamed/part_001 lines 151-182) over   *)
(* updateUserProfile and updateUserPassword (adminService.ts lines         *)
(* 139-163).  The submit button is never disabled; one activation of       *)
(* handleUserSave at a time is explored.                                   *)
(***************************************************************************)

NoUser == [id |-> Null, full_name |-> ""]

FullNames == {"", "Asha"}

NewPasswords == {"", "secret"}

PasswordNote ==
    "Note: Password was NOT changed. Admin password reset requires server-side setup."

PasswordUpdated == "Password updated."

\* startEditUser, lines 152-156
StartEditUser(row) ==
    /\ isAdminPanelOpen /\ isLoggedIn
    /\ ~isEditingUser
    /\ editingUser' = [id |-> row.id, full_name |-> row.full_name]
    /\ newPassword' = ""
    /\ isEditingUser' = TRUE
    /\ UNCHANGED <<adminUsers, userSave, userAlert, profiles, isLoading,
                   adminDestinations, adminPackages>>
    /\ UNCHANGED adminBookings
    /\ OnlyUserForm

\* Cancel, line 586: the form is hidden
CancelEditUser ==
    /\ isEditingUser
    /\ isEditingUser' = FALSE
    /\ UNCHANGED <<adminUsers, editingUser, newPassword, userSave, userAlert,
                   profiles, isLoading, adminDestinations, adminPackages>>
    /\ UNCHANGED adminBookings
    /\ OnlyUserForm

\* the full name field, line 595
SetFullName(value) ==
    /\ isEditingUser
    /\ editingUser # NoUser
    /\ editingUser' = [editingUser EXCEPT !.full_name = value]
    /\ UNCHANGED <<adminUsers, newPassword, isEditingUser, userSave,
                   userAlert, profiles, isLoading, adminDestinations,
                   adminPackages>>
    /\ UNCHANGED adminBookings
    /\ OnlyUserForm

\* the reset password field, line 626
SetNewPassword(value) ==
    /\ isEditingUser
    /\ newPassword' = value
    /\ UNCHANGED <<adminUsers, editingUser, isEditingUser, userSave,
                   userAlert, profiles, isLoading, adminDestinations,
                   adminPackages>>
    /\ UNCHANGED adminBookings
    /\ OnlyUserForm

NoUserSave ==
    [pc |-> "idle", user |-> NoUser, password |-> "", profile |-> "none",
     passwordRequests |-> 0]

\* handleUserSave up to the request of updateUserProfile, lines 158-166
HandleUserSave ==
    /\ isEditingUser
    /\ editingUser # NoUser
    /\ userSave.pc = "idle"
    /\ userSave' = [NoUserSave EXCEPT !.pc = "profile", !.user = editingUser,
                                      !.password = newPassword]
    /\ userAlert' = ""
    /\ UNCHANGED <<adminUsers, editingUser, newPassword, isEditingUser,
                   profiles, isLoading, adminDestinations, adminPackages>>
    /\ UNCHANGED adminBookings
    /\ OnlyUserForm

\* updateUserPassword, lines 157-163: the requests it sends to the backend
\* and what it returns
UpdateUserPasswordRemote(id, pw) == [requests |-> 1, success |-> TRUE]

UpdateUserPassword(id, pw) == [requests |-> 0, success |-> FALSE]

\* the backend executes the profile update; updateUserProfile returns and
\* its result is dropped, the password is handled, the form is closed and loadData is started, lines
\* 162-181 (the last alert is the one that stays in userAlert)
UpdateUserProfile(o) ==
    /\ userSave.pc = "profile"
    /\ profiles' = IF o = "ok"
                   THEN {IF r.id = userSave.user.id
                         THEN [r EXCEPT !.full_name = userSave.user.full_name]
                         ELSE r : r \in profiles}
                   ELSE profiles
    /\ LET pw == UpdateUserPassword(userSave.user.id, userSave.password) IN
       IF userSave.password # ""
       THEN /\ userAlert' = IF ~pw.success THEN PasswordNote
                            ELSE PasswordUpdated
            /\ userSave' = [userSave EXCEPT !.pc = "loading", !.profile = o,
                                            !.passwordRequests = pw.requests]
       ELSE /\ UNCHANGED userAlert
            /\ userSave' = [userSave EXCEPT !.pc = "loading", !.profile = o]
    /\ isEditingUser' = FALSE
    /\ editingUser' = NoUser
    /\ isLoading' = TRUE
    /\ UNCHANGED <<adminUsers, newPassword, adminDestinations, adminPackages>>
    /\ UNCHANGED adminBookings
    /\ OnlyUserForm

\* loadData has read the lists, lines 63-77
UserSaveLoaded(ou, od, op) ==
    /\ userSave.pc = "loading"
    /\ \E result \in FetchUsers(ou) : adminUsers' = result
    /\ \E result \in ListResults(od, destTable) : adminDestinations' = result
    /\ \E result \in ListResults(op, pkgTable) : adminPackages' = result
    /\ isLoading' = FALSE
    /\ userSave' = [userSave EXCEPT !.pc = "idle"]
    /\ UNCHANGED <<editingUser, newPassword, isEditingUser, userAlert,
                   profiles>>
    /\ \E ob \in Outcomes : adminBookings' = FetchBookings(ob)
    /\ OnlyUserForm

InitUserFormPart ==
    /\ adminUsers = <<>>
    /\ editingUser = NoUser
    /\ newPassword = ""
    /\ isEditingUser = FALSE
    /\ userSave = NoUserSave
    /\ userAlert = ""

NextUserForm ==
    \/ \E row \in RowsIn(adminUsers) : StartEditUser(row)
    \/ CancelEditUser
    \/ \E value \in FullNames : SetFullName(value)
    \/ \E value \in NewPasswords : SetNewPassword(value)
    \/ HandleUserSave
    \/ \E o \in Outcomes : UpdateUserProfile(o)
    \/ \E ou, od, op \in {"ok", "error"} : UserSaveLoaded(ou, od, op)

----------------------------------------------------------------------------
(***************************************************************************)
(* The session listener  (src/services/authService.ts lines 110-132,       *)
(* onAuthStateChange) and getCurrentUser (lines 86-107), which resolves    *)
(* the stored session in the same way.  One activation at a time is        *)
(* explored; callback is what the subscriber is called with, or what       *)
(* getCurrentUser returns.                                                 *)
(***************************************************************************)

\* a session as the auth client hands it over: none (null), one without a
\* user, or one of a user with or without an email
NoSession == [present |-> FALSE, user |-> Null, email |-> ""]

AuthSessions ==
    {NoSession, [present |-> TRUE, user |-> Null, email |-> ""]}
    \cup [present : {TRUE}, user : AccountIds, email : {"", "a@unexplore.com"}]

\* session?.user, line 112
HasUser(s) == s.present /\ s.user # Null

\* the profile rows a database may hold for an account: username and role
\* may be missing (<<>>, ""), the role may be 'admin'
ProfileUsernames == {<<>>, <<"a">>}

ProfileRoles == {"", "user", "admin"}

ProfileRows ==
    [id : AccountIds, username : ProfileUsernames, full_name : {""},
     role : ProfileRoles]

\* data of select('*').eq('id', id).single(), lines 113-117: the row, or
\* null (NoProfile) when there is none or the request failed
NoProfile == [id |-> Null, username |-> <<>>, full_name |-> "", role |-> ""]

SingleProfile(o, id) ==
    IF o = "ok" /\ \E r \in profiles : r.id = id
    THEN CHOOSE r \in profiles : r.id = id
    ELSE NoProfile

\* profile?.username || 'User', line 122
UsernameOr(profile) ==
    IF profile.username = <<>> THEN <<"U", "s", "e", "r">>
    ELSE profile.username

\* profile?.role || 'user', line 126
RoleOrAdmin(profile) == IF profile.role = "" THEN "admin" ELSE profile.role

RoleOr(profile) == IF profile.role = "" THEN "user" ELSE profile.role

NoCallback == [called |-> FALSE, null |-> FALSE, id |-> Null, email |-> "",
               username |-> <<>>, role |-> ""]

NoNotify == [kind |-> "none", pc |-> "idle", session |-> NoSession,
             read |-> "none", callback |-> NoCallback]

\* what both do with a session, lines 88 and 112: null for one without a
\* user, the request of the profile otherwise
Resolve(kind, s) ==
    IF HasUser(s)
    THEN [NoNotify EXCEPT !.kind = kind, !.pc = "profile", !.session = s]
    ELSE [NoNotify EXCEPT !.kind = kind, !.pc = "done", !.session = s,
                          !.callback.called = TRUE, !.callback.null = TRUE]

\* the auth client notifies the listener, lines 111-112 and 128-130: a
\* session without a user is answered with callback(null), for one with a
\* user the profile is requested
SessionNotification(s) ==
    /\ notify.pc \in {"idle", "done"}
    /\ notify' = Resolve("listener", s)
    /\ OnlyNotify

\* getCurrentUser has got the session from getSession, lines 87-88 and 106
GetCurrentUser(s) ==
    /\ notify.pc \in {"idle", "done"}
    /\ notify' = Resolve("getCurrentUser", s)
    /\ OnlyNotify

\* the backend answers the profile request and the callback is called with
\* the user, lines 113-127 (getCurrentUser returns it, lines 90-104)
ProfileRead(o) ==
    /\ notify.pc = "profile"
    /\ LET profile == SingleProfile(o, notify.session.user) IN
       notify' = [notify EXCEPT
                    !.pc = "done",
                    !.read = o,
                    !.callback = [called |-> TRUE, null |-> FALSE,
                                  id |-> notify.session.user,
                                  email |-> notify.session.email,
                                  username |-> UsernameOr(profile),
                                  role |-> RoleOr(profile)]]
    /\ OnlyNotify

InitNotifyPart == notify = NoNotify

NextNotify ==
    \/ \E s \in AuthSessions : SessionNotification(s)
    \/ \E s \in AuthSessions : GetCurrentUser(s)
    \/ \E o \in {"ok", "error"} : ProfileRead(o)

----------------------------------------------------------------------------
(***************************************************************************)
(* AuthModal  (src/components/ArtistCard.tsx lines 152-194; App.tsx lines  *)
(* 180-185 mount it while isAuthModalOpen) over signInUser and signUpUser  *)
(***************************************************************************)

\* the username typed into the form
ModalUsernames == {<<"a">>}

\* the switch between signing in and registering, line 324
ToggleAuthMode ==
    /\ isAuthModalOpen
    /\ isLogin' = ~isLogin
    /\ authError' = ""
    /\ UNCHANGED <<isAuthModalOpen, authLoading, authCall>>
    /\ OnlyAuthModal

\* the submit button, line 311
AuthSubmitEnabled == isAuthModalOpen /\ ~authLoading

\* handleSubmit up to its await, lines 167-183: signInUser or signUpUser is
\* called and issues its request
AuthHandleSubmit(uname) ==
    /\ AuthSubmitEnabled
    /\ authCall.pc \in {"idle", "done"}
    /\ authLoading' = TRUE
    /\ authError' = ""
    /\ authCall' = IF isLogin THEN SignInRequest(uname)
                   ELSE SignUpRequest(uname)
    /\ UNCHANGED <<isAuthModalOpen, isLogin>>
    /\ OnlyAuthModal

\* finally { setLoading(false) }, lines 191-193
FinallyKeepsLoading == authLoading

FinallyLoading == FALSE

\* handleSubmit after its await, lines 172-193: an error is thrown into the
\* catch and shown, otherwise onSuccess and onClose unmount the modal; the
\* finally clause runs in both cases
AuthHandleSubmitResume ==
    /\ authLoading
    /\ authCall.pc = "done"
    /\ IF authCall.error # Null
       THEN /\ authError' = authCall.error
            /\ authLoading' = FinallyLoading
            /\ UNCHANGED <<isAuthModalOpen, isLogin>>
       ELSE /\ isAuthModalOpen' = FALSE
            /\ isLogin' = TRUE
            /\ authLoading' = FALSE
            /\ authError' = ""
    /\ UNCHANGED authCall
    /\ OnlyAuthModal

InitAuthModalPart ==
    /\ isAuthModalOpen = FALSE
    /\ isLogin = TRUE
    /\ authLoading = FALSE
    /\ authError = ""

----------------------------------------------------------------------------
(***************************************************************************)
(* The landing page: the user, the wishlist and the user dashboard         *)
(* (src/App.tsx lines 38-47, 66-75, 105-124, 190-199; src/unnamed/part_002)*)
(***************************************************************************)

\* wData.map(w => w.package_id) as a Set, App.tsx line 71
PackageIdsOf(rows) == {r.package_id : r \in rows}

\* getWishlist, customerService lines 37-56: the rows of the user, or []
\* when the result carries an error or the request throws
GetWishlist(o, userId) ==
    IF o = "ok" THEN {r \in wishlist : r.user_id = userId} ELSE {}

\* the packages the backend holds a wishlist row of the user for
Membership(userId) == {p \in Packages : Member(userId, p)}

\* lines 112-117: a copy of the set with pkgId deleted when it has it and
\* added otherwise
OptimisticAdd(ids, pkgId) == ids \cup {pkgId}

Optimistic(ids, pkgId) ==
    IF pkgId \in ids THEN ids \ {pkgId} ELSE ids \cup {pkgId}

\* handleWishlistToggle, App.tsx lines 105-124, up to its await: without a
\* user the auth modal is opened; with one the set is updated and
\* toggleWishlist is called (nothing follows the await)
HandleWishlistToggle(s, pkgId) ==
    /\ IF user = Null
       THEN /\ isAuthModalOpen' = TRUE
            /\ UNCHANGED <<wishlistIds, tw, twCalls>>
       ELSE /\ wishlistIds' = Optimistic(wishlistIds, pkgId)
            /\ ToggleWishlistIssue(s, user, pkgId)
            /\ UNCHANGED isAuthModalOpen
    /\ UNCHANGED <<wishlist, wlNextId, twHistory, bookingVars, catalogVars,
                   adminVars, authVars, pkgFormVars, seedVars, destFormVars,
                   userFormVars, notifyVars, isLogin, authLoading, authError,
                   adminBookingVars, authSession, authEvents,
                   isUserDashboardOpen, dashboard>>

\* no toggleWishlist call is awaiting its answer
NoToggleInFlight == \A s \in Sessions : ~InFlight(s)

\* what a step of the landing page leaves alone besides the wishlist
\* table, the user, the auth modal flag and the page's own state
OnlyPage ==
    UNCHANGED <<bookings, bkNextId, bkAccepted, isBookingModalOpen,
                selectedBookingPackage, formData, status, bmMountedAt,
                bmSubmits, bmCalls, bmTimers, catalogVars, adminVars,
                authVars, pkgFormVars, seedVars, destFormVars, userFormVars,
                notifyVars, isLogin, authLoading, authError,
                adminBookingVars>>

\* getUserBookings, customerService lines 60-74: the bookings of the user,
\* or [] when the result carries an error or the request throws
GetUserBookings(o, userId) ==
    IF o = "ok" THEN {b \in bookings : b.user_id = userId} ELSE {}

\* UserDashboard (part_002 lines 22-27) is mounted while isUserDashboardOpen
\* and a user is set (App.tsx line 190); unmounted, its state is the initial
\* one.  load tells how far loadData is, wData what getWishlist returned,
\* removing the toggleWishlist calls of handleRemoveWishlist, signOut how
\* far handleSignOut is (its closures outlive the component).
NoDashboard == [wishlist |-> {}, history |-> {}, loading |-> FALSE,
                load |-> "idle", loadFor |-> Null, wData |-> {},
                removing |-> {}, signOut |-> "idle"]

DashboardMounted == isUserDashboardOpen /\ user # Null

\* the dashboard after a step that sets the flag and the user: on mounting
\* the effect of lines 28-32 calls loadData, which sets loading and issues
\* the two requests (lines 34-39)
DashboardAfter(open, usr) ==
    IF open /\ usr # Null
    THEN IF DashboardMounted THEN dashboard
         ELSE [NoDashboard EXCEPT !.loading = TRUE, !.load = "pending",
                                  !.loadFor = usr,
                                  !.signOut = dashboard.signOut]
    ELSE [NoDashboard EXCEPT !.signOut = dashboard.signOut]

\* the profile button, App.tsx lines 253-256 (shown while a user is set)
OpenUserDashboard ==
    /\ user # Null
    /\ ~isUserDashboardOpen
    /\ isUserDashboardOpen' = TRUE
    /\ dashboard' = DashboardAfter(TRUE, user)
    /\ UNCHANGED <<wishlistVars, user, isAuthModalOpen, wishlistIds,
                   authSession, authEvents>>
    /\ OnlyPage

\* onClose, App.tsx line 194
CloseUserDashboard ==
    /\ DashboardMounted
    /\ isUserDashboardOpen' = FALSE
    /\ dashboard' = DashboardAfter(FALSE, user)
    /\ UNCHANGED <<wishlistVars, user, isAuthModalOpen, wishlistIds,
                   authSession, authEvents>>
    /\ OnlyPage

\* the backend answers getWishlist of loadData, part_002 line 37
DashboardGetWishlist(o) ==
    /\ DashboardMounted
    /\ dashboard.load = "pending"
    /\ dashboard' = [dashboard EXCEPT
                        !.load = "read",
                        !.wData = GetWishlist(o, dashboard.loadFor)]
    /\ UNCHANGED <<wishlistVars, user, isAuthModalOpen, wishlistIds,
                   authSession, authEvents, isUserDashboardOpen>>
    /\ OnlyPage

\* getUserBookings is answered and loadData resumes, part_002 lines 38-42
DashboardLoaded(o) ==
    /\ DashboardMounted
    /\ dashboard.load = "read"
    /\ dashboard' = [dashboard EXCEPT
                        !.wishlist = dashboard.wData,
                        !.history = GetUserBookings(o, dashboard.loadFor),
                        !.loading = FALSE,
                        !.load = "idle",
                        !.wData = {}]
    /\ UNCHANGED <<wishlistVars, user, isAuthModalOpen, wishlistIds,
                   authSession, authEvents, isUserDashboardOpen>>
    /\ OnlyPage

\* handleRemoveWishlist, part_002 lines 45-46, up to its await; the button
\* belongs to an item of the list, shown when loading is over (lines 106,
\* 129-131)
HandleRemoveWishlist(s, pkgId) ==
    /\ DashboardMounted
    /\ ~dashboard.loading
    /\ \E item \in dashboard.wishlist : item.package_id = pkgId
    /\ ToggleWishlistIssue(s, user, pkgId)
    /\ dashboard' = [dashboard EXCEPT !.removing = @ \cup {s}]
    /\ UNCHANGED <<wishlist, wlNextId, twHistory, user, isAuthModalOpen,
                   wishlistIds, authSession, authEvents,
                   isUserDashboardOpen>>
    /\ OnlyPage

\* toggleWishlist has returned and handleRemoveWishlist resumes, part_002
\* line 47
HandleRemoveWishlistResume(s) ==
    /\ s \in dashboard.removing
    /\ ToggleWishlistResolve(s)
    /\ dashboard' = [dashboard EXCEPT
                        !.wishlist = {item \in @ :
                                        item.package_id # tw[s].p},
                        !.removing = @ \ {s}]
    /\ UNCHANGED <<user, isAuthModalOpen, wishlistIds, authSession,
                   authEvents, isUserDashboardOpen>>
    /\ OnlyPage


\* The auth client gets the session of a user (a sign-in, or the stored
\* session at start) and notifies the listener of authService lines
\* 110-117, which requests the profile.  authEvents has one activation of
\* the listener per sign-in: pc is "profile" while the profile is awaited,
\* "wishlist" while the subscriber of App.tsx awaits getWishlist.
SessionSignIn(u) ==
    /\ authSession = Null
    /\ Len(authEvents) < MaxSignIns
    /\ authSession' = u
    /\ authEvents' = Append(authEvents, [session |-> u, pc |-> "profile"])
    /\ UNCHANGED <<wishlistVars, user, isAuthModalOpen, wishlistIds,
                   isUserDashboardOpen, dashboard>>
    /\ OnlyPage

\* the profile request of activation i is answered and the listener calls
\* the subscriber with the user (authService lines 118-127, whatever the
\* answer); the subscriber sets the user and requests the wishlist
\* (App.tsx lines 67-70)
ListenerProfileRead(i) ==
    /\ i \in DOMAIN authEvents
    /\ authEvents[i].pc = "profile"
    /\ user' = authEvents[i].session
    /\ authEvents' = [authEvents EXCEPT ![i].pc = "wishlist"]
    /\ dashboard' = DashboardAfter(isUserDashboardOpen, authEvents[i].session)
    /\ UNCHANGED <<wishlistVars, isAuthModalOpen, wishlistIds, authSession,
                   isUserDashboardOpen>>
    /\ OnlyPage

\* getWishlist of activation i is answered and the subscriber resumes,
\* App.tsx lines 70-71
ListenerWishlistRead(i, o) ==
    /\ i \in DOMAIN authEvents
    /\ authEvents[i].pc = "wishlist"
    /\ wishlistIds' = PackageIdsOf(GetWishlist(o, authEvents[i].session))
    /\ authEvents' = [authEvents EXCEPT ![i].pc = "done"]
    /\ UNCHANGED <<wishlistVars, user, isAuthModalOpen, authSession,
                   isUserDashboardOpen, dashboard>>
    /\ OnlyPage

\* the session ends other than by handleSignOut (it expires, or another tab
\* signs out): the listener calls the subscriber with null at once
\* (authService lines 128-130; App.tsx lines 67-68 and 72-74)
SessionSignOut ==
    /\ authSession # Null
    /\ authSession' = Null
    /\ user' = Null
    /\ wishlistIds' = {}
    /\ dashboard' = DashboardAfter(isUserDashboardOpen, Null)
    /\ UNCHANGED <<wishlistVars, isAuthModalOpen, authEvents,
                   isUserDashboardOpen>>
    /\ OnlyPage

\* handleSignOut, part_002 lines 50-51, up to its await
HandleSignOut ==
    /\ DashboardMounted
    /\ dashboard.signOut = "idle"
    /\ dashboard' = [dashboard EXCEPT !.signOut = "pending"]
    /\ UNCHANGED <<wishlistVars, user, isAuthModalOpen, wishlistIds,
                   authSession, authEvents, isUserDashboardOpen>>
    /\ OnlyPage

\* signOutUser, authService lines 81-84: accepted, the session ends and the
\* listener calls the subscriber with null; refused, the error is returned
\* and the session stays
SignOutUser(o) ==
    /\ dashboard.signOut = "pending"
    /\ IF o = "ok"
       THEN /\ authSession' = Null
            /\ user' = Null
            /\ wishlistIds' = {}
            /\ dashboard' = [DashboardAfter(isUserDashboardOpen, Null)
                                EXCEPT !.signOut = "answered"]
       ELSE /\ dashboard' = [dashboard EXCEPT !.signOut = "answered"]
            /\ UNCHANGED <<authSession, user, wishlistIds>>
    /\ UNCHANGED <<wishlistVars, isAuthModalOpen, authEvents,
                   isUserDashboardOpen>>
    /\ OnlyPage

\* handleSignOut resumes, part_002 lines 52-53: onLogout and onClose of
\* App.tsx lines 194 and 196, whatever signOutUser returned
HandleSignOutResume ==
    /\ dashboard.signOut = "answered"
    /\ user' = Null
    /\ isUserDashboardOpen' = FALSE
    /\ dashboard' = NoDashboard
    /\ UNCHANGED <<wishlistVars, isAuthModalOpen, wishlistIds, authSession,
                   authEvents>>
    /\ OnlyPage

\* every activation of the listener has called the subscriber
ProfileReadsResolved ==
    \A i \in DOMAIN authEvents : authEvents[i].pc # "profile"

\* every request of the subscriber and of handleSignOut has resolved too
SessionRequestsResolved ==
    /\ \A i \in DOMAIN authEvents : authEvents[i].pc = "done"
    /\ dashboard.signOut = "idle"

NextSession ==
    \/ \E u \in Users : SessionSignIn(u)
    \/ \E i \in 1..MaxSignIns : ListenerProfileRead(i)
    \/ \E i \in 1..MaxSignIns, o \in {"ok", "error"} :
          ListenerWishlistRead(i, o)
    \/ SessionSignOut
    \/ OpenUserDashboard
    \/ CloseUserDashboard
    \/ \E o \in {"ok", "error"} : DashboardGetWishlist(o)
    \/ \E o \in {"ok", "error"} : DashboardLoaded(o)
    \/ HandleSignOut
    \/ \E o \in {"ok", "error"} : SignOutUser(o)
    \/ HandleSignOutResume

\* the dashboard covers the page (part_002 line 59): hearts are clicked
\* while it is closed.  Everything is done one call at a time over a
\* backend that accepts every request.
NextDashboard ==
    \/ OpenUserDashboard
    \/ CloseUserDashboard
    \/ DashboardGetWishlist("ok")
    \/ DashboardLoaded("ok")
    \/ \E s \in Sessions, pkgId \in Packages :
          NoToggleInFlight /\ HandleRemoveWishlist(s, pkgId)
    \/ \E s \in Sessions : HandleRemoveWishlistResume(s)
    \/ \E s \in Sessions, pkgId \in Packages :
          /\ NoToggleInFlight
          /\ ~isUserDashboardOpen
          /\ HandleWishlistToggle(s, pkgId)
    \/ \E s \in Sessions : ToggleWishlistSelect(s, "ok")
    \/ \E s \in Sessions : ToggleWishlistWrite(s, "ok")
    \/ \E s \in Sessions :
          s \notin dashboard.removing /\ ToggleWishlistReturn(s)

InitLandingPart ==
    /\ wishlistIds = {}
    /\ authSession = Null
    /\ authEvents = <<>>
    /\ isUserDashboardOpen = FALSE
    /\ dashboard = NoDashboard

\* the hearts of the package cards clicked one at a time over a backend
\* that accepts every request
NextHeart ==
    \/ \E s \in Sessions, pkgId \in Packages :
          NoToggleInFlight /\ HandleWishlistToggle(s, pkgId)
    \/ \E s \in Sessions : ToggleWishlistSelect(s, "ok")
    \/ \E s \in Sessions : ToggleWishlistWrite(s, "ok")
    \/ \E s \in Sessions : ToggleWishlistReturn(s)

\* the hearts clicked at any moment, also while a call is pending, over a
\* backend that accepts every request
NextHeartOverlap ==
    \/ \E s \in Sessions, pkgId \in Packages : HandleWishlistToggle(s, pkgId)
    \/ \E s \in Sessions : ToggleWishlistSelect(s, "ok")
    \/ \E s \in Sessions : ToggleWishlistWrite(s, "ok")
    \/ \E s \in Sessions : ToggleWishlistReturn(s)

----------------------------------------------------------------------------
(***************************************************************************)
(* The specifications, one per component.                                  *)
(***************************************************************************)

InitCatalog ==
    /\ InitWishlistPart /\ wishlist = {} /\ InitBookingPart
    /\ destTable = {}
    /\ destInserts = 0
    /\ pkgTable \in SUBSET StoredPackages
    /\ InitAppCatalog
    /\ InitAdminPart
    /\ InitAuthPart
    /\ InitPkgFormPart
    /\ InitSeedPart
    /\ InitDestFormPart
    /\ InitUserFormPart
    /\ InitNotifyPart
    /\ InitAuthModalPart
    /\ InitAdminBookingsPart
    /\ InitLandingPart

SpecCatalog == InitCatalog /\ [][NextCatalog]_vars

InitNavigation ==
    /\ InitWishlistPart /\ wishlist = {} /\ InitBookingPart
    /\ \E n \in 0..MaxStored :
          /\ destTable = StoredDestinations(n)
          /\ destInserts = n
    /\ pkgTable \in SUBSET StoredPackages
    /\ InitAppCatalog
    /\ InitAdminPart
    /\ InitAuthPart
    /\ InitPkgFormPart
    /\ InitSeedPart
    /\ InitDestFormPart
    /\ InitUserFormPart
    /\ InitNotifyPart
    /\ InitAuthModalPart
    /\ InitAdminBookingsPart
    /\ InitLandingPart

SpecNavigation == InitNavigation /\ [][NextNavigation]_vars

InitAdmin ==
    /\ InitWishlistPart /\ wishlist = {} /\ InitBookingPart
    /\ InitCatalogPart /\ InitAdminPart
    /\ InitAuthPart
    /\ InitPkgFormPart
    /\ InitSeedPart
    /\ InitDestFormPart
    /\ InitUserFormPart
    /\ InitNotifyPart
    /\ InitAuthModalPart
    /\ InitAdminBookingsPart
    /\ InitLandingPart

SpecAdmin == InitAdmin /\ [][NextAdmin]_vars

InitAuth ==
    /\ InitWishlistPart /\ wishlist = {} /\ InitBookingPart
    /\ InitCatalogPart /\ InitAdminPart
    /\ InitAuthPart
    /\ InitPkgFormPart
    /\ InitSeedPart
    /\ InitDestFormPart
    /\ InitUserFormPart
    /\ InitNotifyPart
    /\ InitAuthModalPart
    /\ InitAdminBookingsPart
    /\ InitLandingPart

SpecAuth == InitAuth /\ [][NextAuth]_vars

\* the administrator is logged in and the panel shows the stored packages
InitPanelLoggedIn ==
    /\ adminSession = "true" /\ isAdminPanelOpen = TRUE /\ isLoggedIn = TRUE
    /\ username = "" /\ password = "" /\ error = "" /\ isLoading = FALSE
    /\ attempts = {<<"admin", "himalayas123">>}

InitPkgForm ==
    /\ InitWishlistPart /\ wishlist = {} /\ InitBookingPart
    /\ destTable = {} /\ destInserts = 0 /\ InitAppCatalog
    /\ pkgTable \in SUBSET StoredPackages
    /\ InitPanelLoggedIn
    /\ InitAuthPart
    /\ pkgText = <<"A", "\n", "B">>
    /\ editingPkg = NoPkg
    /\ isEditingPkg = FALSE
    /\ pkgSaveStatus = "idle"
    /\ pkgSave = NoPkgSave
    /\ pkgAlert = ""
    /\ pkgInserts = 0
    /\ adminPackages \in SelectAscending(pkgTable)
    /\ InitSeedPart
    /\ InitDestFormPart
    /\ InitUserFormPart
    /\ InitNotifyPart
    /\ InitAuthModalPart
    /\ InitAdminBookingsPart
    /\ InitLandingPart

SpecPkgForm == InitPkgForm /\ [][NextPkgForm]_vars

\* the package form over every text the features field can be given
NextPkgParse ==
    \/ \E pkg \in RowsIn(adminPackages) \cup {NoPkg} : StartEditPackage(pkg)
    \/ HandlePkgChange("Manali Escape")
    \/ HandlePkgFeaturesChange
    \/ HandlePkgSave
    \/ \E o \in Outcomes : SavePackageWrite(o)
    \/ \E o \in Outcomes : PkgSaveLoaded(o)

InitPkgParse ==
    /\ InitWishlistPart /\ wishlist = {} /\ InitBookingPart
    /\ InitCatalogPart
    /\ InitPanelLoggedIn
    /\ InitAuthPart
    /\ pkgText \in Texts
    /\ editingPkg = NoPkg
    /\ isEditingPkg = FALSE
    /\ pkgSaveStatus = "idle"
    /\ pkgSave = NoPkgSave
    /\ pkgAlert = ""
    /\ pkgInserts = 0
    /\ adminPackages = <<>>
    /\ InitSeedPart
    /\ InitDestFormPart
    /\ InitUserFormPart
    /\ InitNotifyPart
    /\ InitAuthModalPart
    /\ InitAdminBookingsPart
    /\ InitLandingPart

SpecPkgParse == InitPkgParse /\ [][NextPkgParse]_vars

\* the administrator is logged in over empty tables
InitSeed ==
    /\ InitWishlistPart /\ wishlist = {} /\ InitBookingPart
    /\ InitCatalogPart
    /\ InitPanelLoggedIn
    /\ InitAuthPart
    /\ InitPkgFormPart
    /\ InitSeedPart
    /\ InitDestFormPart
    /\ InitUserFormPart
    /\ InitNotifyPart
    /\ InitAuthModalPart
    /\ InitAdminBookingsPart
    /\ InitLandingPart

SpecSeed == InitSeed /\ [][NextSeed]_vars

\* the administrator is logged in; the panel has loaded the destinations an
\* earlier session left
InitDestForm ==
    /\ InitWishlistPart /\ wishlist = {} /\ InitBookingPart
    /\ \E n \in 0..1 : destTable = StoredDestinations(n) /\ destInserts = n
    /\ pkgTable = {}
    /\ InitAppCatalog
    /\ InitPanelLoggedIn
    /\ InitAuthPart
    /\ InitPkgFormPart
    /\ seeds = <<>>
    /\ adminDestinations \in SelectAscending(destTable)
    /\ InitDestFormPart
    /\ InitUserFormPart
    /\ InitNotifyPart
    /\ InitAuthModalPart
    /\ InitAdminBookingsPart
    /\ InitLandingPart

SpecDestForm == InitDestForm /\ [][NextDestForm]_vars

\* the administrator is logged in; the panel has loaded the profile of the
\* one registered user
InitUserForm ==
    /\ InitWishlistPart /\ wishlist = {} /\ InitBookingPart
    /\ InitCatalogPart
    /\ InitPanelLoggedIn
    /\ accounts = {[id |-> "id1", email |-> GetEmailFromUsername(<<"a">>),
                    username |-> <<"a">>]}
    /\ profiles = {ProfileRow("id1", <<"a">>)}
    /\ authCall = NoCall
    /\ InitPkgFormPart
    /\ InitSeedPart
    /\ InitDestFormPart
    /\ editingUser = NoUser
    /\ newPassword = ""
    /\ isEditingUser = FALSE
    /\ userSave = NoUserSave
    /\ userAlert = ""
    /\ adminUsers \in Orderings(profiles)
    /\ InitNotifyPart
    /\ InitAuthModalPart
    /\ InitAdminBookingsPart
    /\ InitLandingPart

SpecUserForm == InitUserForm /\ [][NextUserForm]_vars

\* the profiles table holds no row or some row for the account
InitNotify ==
    /\ InitWishlistPart /\ wishlist = {} /\ InitBookingPart
    /\ InitCatalogPart /\ InitAdminPart
    /\ accounts = {}
    /\ profiles \in {{}} \cup {{r} : r \in ProfileRows}
    /\ authCall = NoCall
    /\ InitPkgFormPart
    /\ InitSeedPart
    /\ InitDestFormPart
    /\ InitUserFormPart
    /\ InitNotifyPart
    /\ InitAuthModalPart
    /\ InitAdminBookingsPart
    /\ InitLandingPart

SpecNotify == InitNotify /\ [][NextNotify]_vars

\* one form is open and filled in, the others are closed: a booking modal,
\* an AuthModal, or the panel of a logged-in administrator with the form of
\* a new destination (with or without an image file) or of a new package
BookingModalFilled ==
    /\ bookings = {} /\ bkNextId = 1 /\ bkAccepted = 0
    /\ user = Null
    /\ isBookingModalOpen = TRUE
    /\ selectedBookingPackage = "Trek"
    /\ formData = [InitialFormData("Trek") EXCEPT !.name = "Asha",
                                                  !.phone = "98",
                                                  !.date = "d1"]
    /\ status = "idle"
    /\ bmMountedAt = 0 /\ bmSubmits = 0 /\ bmCalls = {} /\ bmTimers = {}

AuthModalShown ==
    /\ isAuthModalOpen = TRUE
    /\ isLogin = TRUE
    /\ authLoading = FALSE
    /\ authError = ""

DestFormFilled ==
    /\ editingDest = [id |-> NoRow, name |-> "Pangong Lake", image |-> "",
                      open |-> TRUE]
    /\ destImageFile \in DestinationFiles
    /\ isEditingDest = TRUE
    /\ destSaveStatus = "idle"
    /\ destSave = NoDestSave
    /\ destAlert = ""

PkgFormFilled ==
    /\ pkgText = <<"A">>
    /\ editingPkg = [id |-> NoRow, name |-> "Manali Escape",
                     features |-> SplitLines(<<"A">>), open |-> TRUE]
    /\ isEditingPkg = TRUE
    /\ pkgSaveStatus = "idle"
    /\ pkgSave = NoPkgSave
    /\ pkgAlert = ""
    /\ pkgInserts = 0
    /\ adminPackages = <<>>

InitSubmit ==
    /\ InitWishlistPart /\ wishlist = {}
    /\ InitCatalogPart
    /\ InitAuthPart
    /\ InitSeedPart
    /\ InitUserFormPart
    /\ InitNotifyPart
    /\ \/ /\ BookingModalFilled /\ InitAuthModalPart /\ InitAdminPart
          /\ InitDestFormPart /\ InitPkgFormPart
       \/ /\ InitBookingPart /\ AuthModalShown /\ InitAdminPart
          /\ InitDestFormPart /\ InitPkgFormPart
       \/ /\ InitBookingPart /\ InitAuthModalPart /\ InitPanelLoggedIn
          /\ DestFormFilled /\ InitPkgFormPart
       \/ /\ InitBookingPart /\ InitAuthModalPart /\ InitPanelLoggedIn
          /\ InitDestFormPart /\ PkgFormFilled
    /\ InitAdminBookingsPart
    /\ InitLandingPart

\* the submissions of the form that is open and what follows them
NextSubmit ==
    \/ HandleSubmit
    \/ \E c \in bmCalls, o \in InsertOutcomes : CreateBookingInsert(c, o)
    \/ \E c \in bmCalls : HandleSubmitResume(c)
    \/ \E n \in bmTimers : AutoClose(n)
    \/ ToggleAuthMode
    \/ \E uname \in ModalUsernames : AuthHandleSubmit(uname)
    \/ \E o \in SignUpOutcomes, id \in AccountIds, trigger \in BOOLEAN :
          SignUpAuth(o, id, trigger)
    \/ \E o \in UpsertOutcomes : SignUpProfile(o)
    \/ \E o \in Outcomes : SignInAuth(o)
    \/ AuthHandleSubmitResume
    \/ HandleDestSave
    \/ \E o \in Outcomes : UploadDestinationImage(o)
    \/ \E o \in Outcomes : SaveDestinationWrite(o)
    \/ \E od, op \in Outcomes : DestSaveLoaded(od, op)
    \/ HandlePkgSave
    \/ \E o \in Outcomes : SavePackageWrite(o)
    \/ \E o \in Outcomes : PkgSaveLoaded(o)

\* a handler whose awaited call has returned is resumed by the runtime
SpecSubmit ==
    /\ InitSubmit
    /\ [][NextSubmit]_vars
    /\ WF_vars(\E c \in bmCalls : HandleSubmitResume(c))
    /\ WF_vars(AuthHandleSubmitResume)

\* the bookings customers made before the panel was opened
StoredBookings(n) ==
    {BookingRow(BookingPayload([InitialFormData("Trek") EXCEPT
                                   !.name = "Asha", !.phone = "98",
                                   !.date = "d1"], Null), k) : k \in 1..n}

InitAdminBookings ==
    /\ InitWishlistPart /\ wishlist = {}
    /\ \E n \in 1..2 : /\ bookings = StoredBookings(n)
                        /\ bkNextId = n + 1
                        /\ bkAccepted = n
    /\ user = Null
    /\ isBookingModalOpen = FALSE
    /\ selectedBookingPackage = ""
    /\ formData = InitialFormData("")
    /\ status = "idle"
    /\ bmMountedAt = 0 /\ bmSubmits = 0 /\ bmCalls = {} /\ bmTimers = {}
    /\ InitCatalogPart
    /\ InitPanelLoggedIn
    /\ InitAuthPart
    /\ InitPkgFormPart
    /\ InitSeedPart
    /\ InitDestFormPart
    /\ InitUserFormPart
    /\ InitNotifyPart
    /\ InitAuthModalPart
    /\ InitAdminBookingsPart
    /\ InitLandingPart

SpecAdminBookings == InitAdminBookings /\ [][NextAdminBookings]_vars

\* one booking is stored, and the booking modal is open with the required
\* fields filled in
InitBookingStatus ==
    /\ InitWishlistPart /\ wishlist = {}
    /\ bookings = StoredBookings(1) /\ bkNextId = 2 /\ bkAccepted = 1
    /\ user = Null
    /\ isBookingModalOpen = TRUE
    /\ selectedBookingPackage = "Trek"
    /\ formData = [InitialFormData("Trek") EXCEPT !.name = "Asha",
                                                  !.phone = "98",
                                                  !.date = "d1"]
    /\ status = "idle"
    /\ bmMountedAt = 0 /\ bmSubmits = 0 /\ bmCalls = {} /\ bmTimers = {}
    /\ InitCatalogPart
    /\ InitPanelLoggedIn
    /\ InitAuthPart
    /\ InitPkgFormPart
    /\ InitSeedPart
    /\ InitDestFormPart
    /\ InitUserFormPart
    /\ InitNotifyPart
    /\ InitAuthModalPart
    /\ InitAdminBookingsPart
    /\ InitLandingPart

SpecBookingStatus == InitBookingStatus /\ [][NextBookingStatus]_vars

\* a user is signed in and the landing page has loaded the wishlist
InitHeart ==
    /\ InitWishlistPart
    /\ bookings = {} /\ bkNextId = 1 /\ bkAccepted = 0
    /\ user \in Users
    /\ isBookingModalOpen = FALSE
    /\ selectedBookingPackage = ""
    /\ formData = InitialFormData("")
    /\ status = "idle"
    /\ bmMountedAt = 0 /\ bmSubmits = 0 /\ bmCalls = {} /\ bmTimers = {}
    /\ InitCatalogPart /\ InitAdminPart
    /\ InitAuthPart
    /\ InitPkgFormPart
    /\ InitSeedPart
    /\ InitDestFormPart
    /\ InitUserFormPart
    /\ InitNotifyPart
    /\ InitAuthModalPart
    /\ InitAdminBookingsPart
    /\ wishlistIds = Membership(user)
    /\ authSession = user
    /\ authEvents = <<>>
    /\ isUserDashboardOpen = FALSE
    /\ dashboard = NoDashboard

SpecHeart == InitHeart /\ [][NextHeart]_vars

SpecHeartOverlap == InitHeart /\ [][NextHeartOverlap]_vars

SpecDashboard == InitHeart /\ [][NextDashboard]_vars

\* nobody is signed in when the page is loaded
InitSession ==
    /\ InitWishlistPart /\ InitBookingPart
    /\ InitCatalogPart /\ InitAdminPart
    /\ InitAuthPart
    /\ InitPkgFormPart
    /\ InitSeedPart
    /\ InitDestFormPart
    /\ InitUserFormPart
    /\ InitNotifyPart
    /\ InitAuthModalPart
    /\ InitAdminBookingsPart
    /\ InitLandingPart

SpecSession == InitSession /\ [][NextSession]_vars

InitBooking ==
    /\ InitWishlistPart /\ wishlist = {} /\ InitBookingPart
    /\ InitCatalogPart /\ InitAdminPart
    /\ InitAuthPart
    /\ InitPkgFormPart
    /\ InitSeedPart
    /\ InitDestFormPart
    /\ InitUserFormPart
    /\ InitNotifyPart
    /\ InitAuthModalPart
    /\ InitAdminBookingsPart
    /\ InitLandingPart

SpecBooking == InitBooking /\ [][NextBooking]_vars

InitWishlist ==
    /\ InitWishlistPart /\ InitBookingPart
    /\ InitCatalogPart /\ InitAdminPart
    /\ InitAuthPart
    /\ InitPkgFormPart
    /\ InitSeedPart
    /\ InitDestFormPart
    /\ InitUserFormPart
    /\ InitNotifyPart
    /\ InitAuthModalPart
    /\ InitAdminBookingsPart
    /\ InitLandingPart

SpecWishlist == InitWishlist /\ [][NextWishlist]_vars

----------------------------------------------------------------------------
(***************************************************************************)
(* Claims about the wishlist toggle.                                       *)
(***************************************************************************)

PairQuiet(pr) == \A s \in Sessions : ~OnPair(s, pr[1], pr[2])

\* C1: two consecutive toggleWishlist(u, p) calls -- each with every request
\* accepted, starting from at most one row for the pair and overlapping no
\* other toggle of the pair -- leave the membership of (u, p) as it was
\* before the first of them.
C1_ToggleTwiceRestores ==
    \A pr \in Pairs :
        LET h == twHistory[pr] IN
        (Len(h) = 2 /\ h[1].clean /\ h[2].clean /\ PairQuiet(pr))
            => Member(pr[1], pr[2]) = h[1].m0

\* a pair that was present, was removed by one clean toggle and put back by
\* the next
C1_Witness ==
    \E pr \in Pairs :
        LET h == twHistory[pr] IN
        /\ Len(h) = 2 /\ h[1].clean /\ h[2].clean /\ PairQuiet(pr)
        /\ h[1].m0 /\ ~h[2].m0
        /\ Member(pr[1], pr[2])

\* two calls of different sessions on the same pair, both having written
\* with every request accepted, the read of t having preceded the write of s
\* (and the read of s the write of t, which came later)
RacingPair(s, t) ==
    /\ s # t
    /\ tw[s].rival = t
    /\ tw[s].pc = "done" /\ tw[t].pc = "done"
    /\ tw[s].u = tw[t].u /\ tw[s].p = tw[t].p
    /\ tw[s].ok /\ tw[t].ok

\* C2: toggleWishlist is a non-atomic check-then-act.  When two sessions'
\* calls on one pair both read before either writes, then (a) if the pair was
\* absent both insert and the pair ends with two rows, both calls returning
\* true; (b) if both read the same existing row both delete it, and the pair
\* ends absent after two toggles, both calls returning false.
C2_RaceOutcomes ==
    \A s, t \in Sessions :
        RacingPair(s, t) =>
            /\ (~tw[s].m0 /\ ~tw[t].m0
                    /\ tw[s].existing = NoRow /\ tw[t].existing = NoRow)
                  => /\ Cardinality(MatchingRows(tw[s].u, tw[s].p)) = 2
                     /\ tw[s].ret /\ tw[t].ret
            /\ (tw[s].existing # NoRow /\ tw[s].existing = tw[t].existing)
                  => /\ ~Member(tw[s].u, tw[s].p)
                     /\ ~tw[s].ret /\ ~tw[t].ret

\* both outcomes at once: one pair holds the two rows of an earlier double
\* insert while both sessions have just deleted the single row of the other
C2_Witness ==
    \E s, t \in Sessions :
        /\ RacingPair(s, t)
        /\ tw[s].existing # NoRow /\ tw[s].existing = tw[t].existing
        /\ tw[s].m0 /\ tw[t].m0
        /\ ~Member(tw[s].u, tw[s].p)
        /\ \E pr \in Pairs :
              LET h == twHistory[pr] IN
              /\ Len(h) = 2
              /\ ~h[1].m0 /\ ~h[2].m0 /\ h[1].ret /\ h[2].ret
              /\ h[1].existing = NoRow /\ h[2].existing = NoRow
              /\ Cardinality(MatchingRows(pr[1], pr[2])) = 2

\* C3: the boolean toggleWishlist returns is the membership of the pair once
\* the call has completed, whatever the outcome of its requests (stated for
\* a call that no other toggle of the pair overlaps).
C3_ReturnsMembership ==
    \A s \in Sessions :
        (tw[s].pc = "done" /\ tw[s].solo)
            => tw[s].ret = Member(tw[s].u, tw[s].p)

----------------------------------------------------------------------------
(***************************************************************************)
(* Claims about the catalog reader.                                        *)
(***************************************************************************)

RowsOf(q) == {q[i] : i \in 1..Len(q)}

\* what one call of a list function returned, given the outcome of its
\* select and the table at that moment
ReturnsPerContract(o, table, result) ==
    IF o = "ok"
    THEN /\ RowsOf(result) = table
         /\ Len(result) = Cardinality(table)
         /\ \A i, j \in 1..Len(result) :
               i < j => result[i].created_at < result[j].created_at
    ELSE result = <<>>

\* a step in which the pending read of res finishes
Finishes(res) ==
    IF res = "destinations"
    THEN loadData.dest.state = "pending" /\ loadData'.dest.state = "done"
    ELSE loadData.pkg.state = "pending" /\ loadData'.pkg.state = "done"

\* C7: getDestinations and getPackages return the empty sequence whenever
\* the select reports an error or throws, and the call still returns to its
\* caller (the pending read becomes a finished one); otherwise they return
\* exactly the rows of the table in ascending creation-time order.  The
\* result of a failed call is the result a successful call gives on an
\* empty table.
C7_ListReturnsRowsOrEmpty ==
    [][/\ \A o \in Outcomes :
            (loadData.dest.state = "pending" /\ GetDestinations(o)) =>
              /\ Finishes("destinations")
              /\ ReturnsPerContract(o, destTable, loadData'.dest.rows)
              /\ o # "ok" => ReturnsPerContract("ok", {}, loadData'.dest.rows)
       /\ \A o \in Outcomes :
            (loadData.pkg.state = "pending" /\ GetPackages(o)) =>
              /\ Finishes("packages")
              /\ ReturnsPerContract(o, pkgTable, loadData'.pkg.rows)
              /\ o # "ok" => ReturnsPerContract("ok", {}, loadData'.pkg.rows)
      ]_vars

\* a successful read of two destinations, and a read of the packages that
\* threw while the table held a row
C7_Witness ==
    /\ lastRead["destinations"].outcome = "ok"
    /\ Len(lastRead["destinations"].rows) = 2
    /\ loadData.dest.state = "done"
    /\ lastRead["packages"].outcome = "throw"
    /\ lastRead["packages"].rows = <<>>
    /\ loadData.pkg.state = "done"
    /\ ~written["packages"]
    /\ pkgTable # {}

ReadStep(res) ==
    /\ Finishes(res)
    /\ IF res = "destinations"
       THEN \E o \in Outcomes : GetDestinations(o)
       ELSE \E o \in Outcomes : GetPackages(o)

\* C8 as stated: a list call changes no backend state, and any two calls
\* with no write to the table between them return the same ordered sequence.
C8_AnyTwoReadsAgree ==
    [][\A res \in Resources : ReadStep(res) =>
          /\ UNCHANGED <<destTable, pkgTable, destInserts>>
          /\ (lastRead[res].outcome # "none" /\ ~written[res])
                => lastRead'[res].rows = lastRead[res].rows
      ]_vars

\* C8, amended: a list call changes no backend state, and any two calls
\* whose selects both succeed, with no write to the table between them,
\* return the same ordered sequence.
C8_SuccessfulReadsAgree ==
    [][\A res \in Resources : ReadStep(res) =>
          /\ UNCHANGED <<destTable, pkgTable, destInserts>>
          /\ (/\ lastRead[res].outcome = "ok"
              /\ lastRead'[res].outcome = "ok"
              /\ ~written[res])
                => lastRead'[res].rows = lastRead[res].rows
      ]_vars

\* two successful reads of a table of two destinations, no write between
C8_Witness ==
    /\ lastRead["destinations"].priorOk
    /\ lastRead["destinations"].outcome = "ok"
    /\ Len(lastRead["destinations"].rows) = 2
    /\ loadData.dest.state = "done"

----------------------------------------------------------------------------
(***************************************************************************)
(* Claims about the destination detail view.                               *)
(***************************************************************************)

\* C10: navigation wraps modulo the list length.  After a navigation from
\* index i of a list of n >= 1 destinations, the selected destination is
\* the one at index (i + 1) mod n for 'next' and (i - 1 + n) mod n for
\* 'previous'; 'next' followed by 'previous' selects index i again.
C10_NavigationWraps ==
    navLog # <<>> =>
        LET n == Len(destinations)
            last == navLog[Len(navLog)]
            i == last.from
        IN /\ n >= 1
           /\ i \in 0..(n - 1)
           /\ last.direction = "next" =>
                 selectedDestination = destinations[((i + 1) % n) + 1]
           /\ last.direction = "prev" =>
                 selectedDestination = destinations[((i - 1 + n) % n) + 1]
           /\ (/\ Len(navLog) = 2
               /\ navLog[1].direction = "next"
               /\ navLog[2].direction = "prev")
                 => selectedDestination = destinations[navLog[1].from + 1]

\* three destinations: 'next' from index 2 selected index 0, and 'previous'
\* from there selected index 2
C10_Witness ==
    /\ Len(destinations) = 3
    /\ navLog = <<[direction |-> "next", from |-> 2],
                  [direction |-> "prev", from |-> 0]>>
    /\ selectedDestination = destinations[3]

\* the elements of the loaded list
Loaded == {destinations[i] : i \in 1..Len(destinations)}

\* the destination selected after k 'next' navigations from `selected`
RECURSIVE NextTimes(_, _, _)
NextTimes(list, selected, k) ==
    IF k = 0 THEN selected
    ELSE NextTimes(list,
                   ElementAt(list, NextIndex("next", FindIndex(list, selected.id),
                                             Len(list))),
                   k - 1)

\* C29: in every reachable state of the landing page the selected
\* destination is none or an element of the loaded list; a navigation
\* (button or arrow key) runs only with a destination selected and a
\* non-empty list, leaves the list alone and selects an element of it;
\* with nothing selected or an empty list it does nothing; and n 'next'
\* navigations over a list of n destinations come back to the start.
C29_SelectionStaysInTheList ==
    /\ [](selectedDestination = NoDestination \/ selectedDestination \in Loaded)
    /\ []((selectedDestination = NoDestination \/ Len(destinations) = 0) =>
             ~ENABLED (\E direction \in {"next", "prev"} :
                          NavigateDestination(direction)))
    /\ [](selectedDestination # NoDestination =>
             NextTimes(destinations, selectedDestination, Len(destinations))
                = selectedDestination)
    /\ [][(\E direction \in {"next", "prev"} : NavigateDestination(direction)) =>
             /\ selectedDestination \in Loaded
             /\ destinations' = destinations
             /\ selectedDestination' \in Loaded
             /\ (/\ Len(destinations) = 2
                 /\ Len(navLog) >= 1
                 /\ navLog'[Len(navLog')].direction = "next"
                 /\ navLog[Len(navLog)].direction = "next")
                   => selectedDestination' =
                         destinations[navLog[Len(navLog)].from + 1]
           ]_vars

\* three destinations: two 'next' navigations from index 1 wrapped to the
\* first destination of the list
C29_Witness ==
    /\ Len(destinations) = 3
    /\ navLog = <<[direction |-> "next", from |-> 1],
                  [direction |-> "next", from |-> 2]>>
    /\ selectedDestination = destinations[1]

----------------------------------------------------------------------------
(***************************************************************************)
(* Claims about the admin gate.                                            *)
(***************************************************************************)

LiteralPair == <<"admin", "himalayas123">>

\* C9: a login submitted with any (username, password) pair other than the
\* fixed literal pair fails: checkAuth is false, the error becomes 'Invalid
\* credentials', and the attempt changes neither the stored admin flag nor
\* isLoggedIn, which stays false.  As long as the literal pair has not been
\* submitted, whatever the number of attempts, the flag is not stored and
\* the panel is not logged in.
C9_WrongCredentialsNeverLogIn ==
    [][/\ (HandleLogin /\ <<username, password>> # LiteralPair) =>
              /\ ~CheckAuth(username, password)
              /\ error' = "Invalid credentials"
              /\ adminSession' = adminSession
              /\ isLoggedIn' = isLoggedIn
              /\ ~isLoggedIn'
       /\ LiteralPair \notin attempts' =>
              /\ adminSession' = Null
              /\ ~isLoggedIn'
      ]_vars

\* three different wrong pairs were submitted, each half of the literal
\* pair among them, and the panel still shows the login form
C9_Witness ==
    /\ Cardinality(attempts) >= 3
    /\ <<"admin", "admin">> \in attempts
    /\ <<"Admin", "himalayas123">> \in attempts
    /\ LiteralPair \notin attempts
    /\ error = "Invalid credentials"
    /\ adminSession = Null
    /\ ~isLoggedIn
    /\ isAdminPanelOpen

\* C18: the dashboard is shown only while the stored flag is set; the flag
\* becomes set only in a login whose credentials match and becomes unset
\* only in a logout; and a panel that is opened takes isLoggedIn from the
\* flag, so a past login opens the dashboard again until a logout.
C18_AccessFollowsTheStoredFlag ==
    [][/\ isLoggedIn' => adminSession' = "true"
       /\ adminSession # "true" /\ adminSession' = "true"
            => HandleLogin /\ CheckAuth(username, password)
       /\ adminSession = "true" /\ adminSession' # "true" => HandleLogout
       /\ ~isAdminPanelOpen /\ isAdminPanelOpen'
            => isLoggedIn' = (adminSession = "true")
      ]_vars

\* the panel was closed after a login and opened again: the dashboard is
\* shown though nothing was typed
C18_Witness ==
    /\ isAdminPanelOpen
    /\ isLoggedIn
    /\ username = "" /\ password = ""
    /\ adminSession = "true"


(***************************************************************************)
(* Claims about the bookings tab of the admin panel.                        *)
(***************************************************************************)

\* C26: after handleLogout has run and until the next successful login the
\* bookings list the panel holds in memory is empty, also when a loadData
\* call made before the logout is answered after it.
C26_NoBookingsAfterLogout ==
    (isAdminPanelOpen /\ ~isLoggedIn) => adminBookings = {}

\* C27: handleStatusChange sets the status in the local list before the
\* update is issued; a failed update makes the panel reload; and when that
\* reload completes, the status the list shows for the booking is the one
\* the backend stores.
C27_FailedUpdateReloadsTheStoredStatus ==
    [][/\ \A id \in BookingIds, newStatus \in Statuses :
             HandleStatusChange(id, newStatus) =>
                /\ bookings' = bookings
                /\ \A b \in adminBookings' : b.id = id => b.status = newStatus
       /\ \A c \in DOMAIN statusChanges :
             (/\ statusChanges[c].pc = "update"
              /\ statusChanges'[c].pc = "done"
              /\ ~statusChanges'[c].success
              /\ statusChanges[c].mounted) =>
                \E l \in bookingLoads' \ bookingLoads :
                    l.cause = statusChanges[c].id
       /\ \A l \in bookingLoads :
             (l.cause # NoRow /\ l.pc = "fetched" /\ AdminLoadDataFinish(l)) =>
                \A b \in adminBookings' :
                    b.id = l.cause =>
                       \E r \in bookings' : r.id = b.id /\ r.status = b.status
      ]_vars

\* the row of the bookings table with the given id
BookingWithId(rows, id) == CHOOSE r \in rows : r.id = id

\* C28: the status of a booking has no transition constraints and stays in
\* its domain.  Every inserted booking has status 'pending'; the select
\* offers every other one of the four values for a listed booking, whatever
\* its status; an update leaves every row but the one with the given id as
\* it was and changes nothing but the status of that one, to the value
\* asked for when the update succeeds; and every stored booking's status is
\* one of the four values.
C28_StatusStaysInItsDomain ==
    /\ [](\A r \in bookings : r.status \in Statuses)
    /\ []((isAdminPanelOpen /\ isLoggedIn
            /\ Len(statusChanges) < MaxStatusChanges) =>
             \A b \in adminBookings :
                \A newStatus \in Statuses \ {b.status} :
                   ENABLED HandleStatusChange(b.id, newStatus))
    /\ [][/\ \A r \in bookings' :
                r.id \notin BookingIds => r.status = "pending"
          /\ \A c \in DOMAIN statusChanges :
                (statusChanges[c].pc = "update"
                   /\ statusChanges'[c].pc = "done") =>
                   LET call == statusChanges[c]
                   IN /\ {r.id : r \in bookings'} = BookingIds
                      /\ \A r \in bookings :
                            LET after == BookingWithId(bookings', r.id)
                            IN /\ r.id # call.id => after = r
                               /\ after = [r EXCEPT !.status = after.status]
                               /\ after.status \in {r.status, call.status}
                               /\ (r.id = call.id /\ statusChanges'[c].success)
                                     => after.status = call.status
         ]_vars

\* booking 1 went from 'pending' to 'completed' and back to 'pending' while
\* a booking made since the panel was opened is stored as 'pending'
C28_Witness ==
    /\ Len(statusChanges) = 2
    /\ statusChanges[1] = [id |-> 1, status |-> "completed", pc |-> "done",
                           mounted |-> TRUE, success |-> TRUE]
    /\ statusChanges[2] = [id |-> 1, status |-> "pending", pc |-> "done",
                           mounted |-> TRUE, success |-> TRUE]
    /\ BookingWithId(bookings, 1).status = "pending"
    /\ \E r \in bookings : r.id = 2 /\ r.status = "pending"

----------------------------------------------------------------------------
(***************************************************************************)
(* Claims about the landing page.                                          *)
(***************************************************************************)

\* the backend holds at most one wishlist row of the pair
AtMostOneRow(u, p) == Cardinality(MatchingRows(u, p)) <= 1

\* C21: starting with wishlistIds equal to the backend membership of the
\* signed-in user (at most one row per package), whenever every heart
\* toggle issued so far has resolved, each issued after the one before it
\* resolved and each accepted by the backend, wishlistIds equals the
\* backend membership again, still with at most one row per package.
C21_OptimisticUpdateMirrorsTheToggle ==
    NoToggleInFlight =>
        /\ wishlistIds = Membership(user)
        /\ \A p \in Packages : AtMostOneRow(user, p)

\* four toggles have resolved: p1 added, removed and added again, and p2
\* removed
C21_Witness ==
    /\ twCalls = 4
    /\ NoToggleInFlight
    /\ Len(twHistory[<<user, "p1">>]) = 2
    /\ twHistory[<<user, "p1">>][1].ret = FALSE
    /\ twHistory[<<user, "p1">>][2].ret = TRUE
    /\ Len(twHistory[<<user, "p2">>]) = 1
    /\ twHistory[<<user, "p2">>][1].ret = FALSE
    /\ wishlistIds = {"p1"}

\* C22: once every toggleWishlist call of the page has resolved, also
\* when a heart was clicked again before the call of the click before it
\* had resolved, wishlistIds has a package exactly when the backend holds a
\* row of the user for it, and the backend holds at most one such row.
C22_OverlappingTogglesStayInSync ==
    NoToggleInFlight =>
        \A p \in Packages :
            /\ p \in wishlistIds <=> Member(user, p)
            /\ AtMostOneRow(user, p)

\* C23: when handleRemoveWishlist of the dashboard completes for a
\* package, wishlistIds of the landing page does not have the package any
\* more; and a heart click on a package the backend holds no row for adds
\* the package to wishlistIds (and so asks the backend to add it).
C23_DashboardRemovalReachesTheLandingPage ==
    /\ [][\A s \in Sessions :
            (s \in dashboard.removing /\ tw[s].pc = "done"
             /\ HandleRemoveWishlistResume(s))
                => tw[s].p \notin wishlistIds']_vars
    /\ [][\A s \in Sessions, p \in Packages :
            (NoToggleInFlight /\ user # Null /\ ~Member(user, p)
             /\ HandleWishlistToggle(s, p))
                => p \in wishlistIds']_vars

\* C24: once the session has ended, the subscriber has been called with
\* null, and every request issued before that has resolved, wishlistIds is
\* empty: a getWishlist of the user that was signed in, answered after the
\* sign-out, does not fill it again.
C24_NoWishlistSurvivesSignOut ==
    (authSession = Null /\ user = Null /\ SessionRequestsResolved)
        => wishlistIds = {}

\* C25: once every profile read started by a session notification has
\* resolved, the user of the landing page is set exactly when the backend
\* session has a user, and is that user.
C25_UserFollowsTheLatestSession ==
    ProfileReadsResolved =>
        /\ user # Null <=> authSession # Null
        /\ user # Null => user = authSession

----------------------------------------------------------------------------
(***************************************************************************)
(* Claims about the auth service.                                          *)
(***************************************************************************)

\* what each typed character contributes to the email: itself in lower
\* case when that is a letter or a digit, nothing otherwise
Contribution(c) ==
    CASE c = "a" -> <<"a">>
      [] c = "B" -> <<"b">>
      [] c = "-" -> <<>>

RECURSIVE Normalized(_)
Normalized(uname) ==
    IF uname = <<>> THEN <<>>
    ELSE Contribution(Head(uname)) \o Normalized(Tail(uname))

ExpectedEmail(uname) == Normalized(uname) \o <<"@unexplore.com">>

\* C11: the email sent to the auth backend is the username in lower case
\* with every character outside [a-z0-9] removed, followed by
\* '@unexplore.com', in signUpUser and in signInUser alike; usernames with
\* equal normalizations get the same email, so a sign-up under a second
\* such username meets the account of the first and creates none.
C11_EmailIsNormalizedUsername ==
    /\ authCall.kind # "none" =>
          authCall.email = ExpectedEmail(authCall.username)
    /\ \A a \in accounts :
          /\ a.email = ExpectedEmail(a.username)
          /\ (/\ authCall.kind # "none"
              /\ Normalized(authCall.username) = Normalized(a.username))
                => authCall.email = a.email
          /\ (/\ authCall.kind = "signUp"
              /\ authCall.pc \in {"profile", "done"}
              /\ authCall.username # a.username
              /\ Normalized(authCall.username) = Normalized(a.username))
                => authCall.auth # "session"
    /\ \A a, b \in accounts : a.email = b.email => a = b

\* 'B-' is registered and the sign-up of '-B' was answered with an error
C11_Witness ==
    /\ \E a \in accounts : /\ a.username = <<"B", "-">>
                           /\ a.email = authCall.email
    /\ authCall.kind = "signUp"
    /\ authCall.username = <<"-", "B">>
    /\ authCall.email = <<"b", "@unexplore.com">>
    /\ authCall.pc = "done"
    /\ authCall.auth = "error"

\* C17: signUpUser issues the profile upsert exactly when auth.signUp gave
\* no error, a user and a session, and issues it once; an error answer to
\* the upsert, the row-level-security conflict included, still ends in
\* error = null with the auth data; when auth.signUp answers with an error
\* signUpUser returns that error with data = null and has issued no upsert.
C17_ProfileWriteOnlyWithSession ==
    (authCall.kind = "signUp" /\ authCall.pc \in {"profile", "done"}) =>
        /\ authCall.profileWrites \in {0, 1}
        /\ authCall.profileWrites = 1 <=>
              (/\ authCall.auth = "session"
               /\ authCall.user # Null
               /\ authCall.session)
        /\ authCall.upsert # "none" => authCall.profileWrites = 1
        /\ authCall.upsert \in {"ok", "42501", "error"} =>
              authCall.error = Null /\ authCall.data = "authData"
        /\ authCall.auth = "error" =>
              /\ authCall.error = "authError"
              /\ authCall.data = Null
              /\ authCall.profileWrites = 0

\* the trigger had already written the profile and the client's upsert was
\* refused with 42501: signUpUser returned the auth data and no error
C17_Witness ==
    /\ authCall.kind = "signUp"
    /\ authCall.pc = "done"
    /\ authCall.upsert = "42501"
    /\ \E r \in profiles : r.id = authCall.user
    /\ authCall.error = Null
    /\ authCall.data = "authData"

----------------------------------------------------------------------------
(***************************************************************************)
(* Claims about the package form.                                          *)
(***************************************************************************)

\* a line is kept when it has a character that is not white space
Flush(cur, out) ==
    IF \E i \in 1..Len(cur) : cur[i] # " " THEN Append(out, cur) ELSE out

\* the lines of a text read in one pass, character by character
RECURSIVE Scan(_, _, _)
Scan(text, cur, out) ==
    IF text = <<>> THEN Flush(cur, out)
    ELSE IF Head(text) = "\n" THEN Scan(Tail(text), <<>>, Flush(cur, out))
    ELSE Scan(Tail(text), Append(cur, Head(text)), out)

ExpectedFeatures(text) == Scan(text, <<>>, <<>>)

\* C12: whatever text is entered in the features field, the features sent
\* to savePackage, and stored by it, are the newline-separated lines of the
\* text that are not empty after trimming, in their order.
C12_FeaturesAreNonBlankLines ==
    /\ pkgSave.pc = "request" =>
          pkgSave.payload.features = ExpectedFeatures(pkgText)
    /\ \A r \in pkgTable : r.features = ExpectedFeatures(pkgText)

\* "A\n\nB\n" was entered and ["A", "B"] is stored
C12_Witness ==
    /\ pkgText = <<"A", "\n", "\n", "B", "\n">>
    /\ editingPkg = NoPkg
    /\ \E r \in pkgTable : r.features = << <<"A">>, <<"B">> >>

----------------------------------------------------------------------------
(***************************************************************************)
(* Claims about the seeding                                                *)
(***************************************************************************)

NamesOf(q) == [i \in 1..Len(q) |-> q[i].name]

\* the names of the first k fallback records of a table whose insert the
\* backend accepted for seeding a, in the order of the dataset
RECURSIVE AcceptedNames(_, _, _)
AcceptedNames(a, table, k) ==
    IF k = 0 THEN <<>>
    ELSE AcceptedNames(a, table, k - 1)
         \o IF SeedRecords[k].table = table /\ k \in seeds[a].oks
            THEN <<SeedRecords[k].name>>
            ELSE <<>>

RECURSIVE SeededNames(_, _)
SeededNames(table, n) ==
    IF n = 0 THEN <<>>
    ELSE SeededNames(table, n - 1) \o AcceptedNames(n, table, Len(SeedRecords))

Copies(rec) ==
    IF rec.table = "destinations"
    THEN Cardinality({r \in destTable : r.name = rec.name})
    ELSE Cardinality({r \in pkgTable : r.name = rec.name})

----------------------------------------------------------------------------
(***************************************************************************)
(* Claims about the destination form                                       *)
(***************************************************************************)

\* C14: in a save with an image file the table is written only after the
\* upload was answered with success, and every row written then carries the
\* uploaded file's public URL, whatever image the form held; an upload
\* answered with a failure ends the save: it returns false and the table
\* stays as it was.
C14_UploadComesBeforeTheWrite ==
    [][/\ destSave.pc = "upload" => destTable' = destTable
       /\ destSave.pc = "upload" /\ destSave'.upload \notin {Null, "ok"}
            => /\ destSave'.pc = "idle"
               /\ destSave'.result = "false"
       /\ destSave.file # Null /\ destTable' # destTable
            => /\ destSave.upload = "ok"
               /\ \A r \in destTable' \ destTable :
                    r.image = UploadedUrl("ok")]_vars

\* an existing row has been saved with a new image in place of its old one
C14_Witness ==
    /\ destSave.file # Null
    /\ destSave.result = "true"
    /\ destSave.destination.id # NoRow
    /\ destSave.destination.image # UploadedUrl("ok")
    /\ \E r \in destTable :
            r.id = destSave.destination.id /\ r.image = UploadedUrl("ok")

----------------------------------------------------------------------------
(***************************************************************************)
(* Claims about the user form                                              *)
(***************************************************************************)

\* C15: the password reset is a no-op: updateUserPassword sends nothing to
\* the backend and returns false, so a save with a non-empty new password
\* always ends with the note that the password was NOT changed, and the
\* alert "Password updated." never appears.
C15_PasswordResetIsNoOp ==
    /\ userSave.passwordRequests = 0
    /\ userAlert # PasswordUpdated
    /\ userSave.pc \in {"loading", "idle"} /\ userSave.password # ""
            => userAlert = PasswordNote

C15_Witness ==
    /\ userSave.pc = "loading"
    /\ userSave.password = "secret"
    /\ userSave.profile = "ok"
    /\ userAlert = PasswordNote

\* C19: a write that the backend fails is shown to the user as a failure;
\* for the profile update of the user form: once updateUserProfile has
\* answered with a failure, an alert is on the screen.
C19_FailedProfileUpdateIsShown ==
    userSave.pc \in {"loading", "idle"} /\ userSave.profile \in {"error", "throw"}
        => userAlert # ""

----------------------------------------------------------------------------
(***************************************************************************)
(* Claims about the session listener                                       *)
(***************************************************************************)

\* the rows of the profiles table that the listener's request returned
ReadableRows ==
    IF notify.read = "ok"
    THEN {r \in profiles : r.id = notify.session.user}
    ELSE {}

\* C20: the callback gets null exactly when the session has no user;
\* otherwise it gets a user with the id of the session, with the role of
\* the profile or 'user' when the profile or its role is missing, and with
\* the username of the profile or 'User' when that is missing; without a
\* readable profile the role is never 'admin'.
C20_SessionResolvesWithSafeDefaults ==
    notify.kind = "listener" /\ notify.pc = "done" =>
        /\ notify.callback.called
        /\ notify.callback.null <=> ~HasUser(notify.session)
        /\ HasUser(notify.session) =>
            /\ notify.callback.id = notify.session.user
            /\ \A r \in ReadableRows :
                /\ r.role # "" => notify.callback.role = r.role
                /\ r.role = "" => notify.callback.role = "user"
                /\ r.username # <<>> => notify.callback.username = r.username
                /\ r.username = <<>> =>
                        notify.callback.username = <<"U", "s", "e", "r">>
            /\ ReadableRows = {} =>
                /\ notify.callback.role = "user"
                /\ notify.callback.username = <<"U", "s", "e", "r">>

\* an administrator's row could not be read and the user got the role 'user'
C20_Witness ==
    /\ notify.kind = "listener"
    /\ notify.pc = "done"
    /\ HasUser(notify.session)
    /\ notify.read = "error"
    /\ \E r \in profiles : r.id = notify.session.user /\ r.role = "admin"
    /\ notify.callback.role = "user"

----------------------------------------------------------------------------
(***************************************************************************)
(* Claims about the submitting forms                                       *)
(***************************************************************************)

\* C16: in the booking modal, the AuthModal, the destination form and the
\* package form, a request that has come back with a failure is followed by
\* a state in which the busy indicator is cleared and the form can be
\* submitted again.
C16_FailureReturnsToIdle ==
    /\ (\E c \in bmCalls : c.pc = "returned" /\ ~c.success /\ Live(c))
            ~> (status = "error" /\ SubmitButtonEnabled)
    /\ (authLoading /\ authCall.pc = "done" /\ authCall.error # Null)
            ~> (~authLoading /\ AuthSubmitEnabled)
    /\ (destSave.result = "false")
            ~> (destSaveStatus = "idle" /\ DestSubmitEnabled)
    /\ (pkgAlert = "Failed to save package.")
            ~> (pkgSaveStatus = "idle" /\ PkgSubmitEnabled)

\* a sign-in was refused: the modal shows the error and can be submitted
C16_Witness ==
    /\ isAuthModalOpen
    /\ authCall.error # Null
    /\ authError # ""
    /\ AuthSubmitEnabled

============================================================================
